---- MODULE Spec2Model ----
(***************************************************************************)
(* Model of the tabular ingestion engine of schahlled-csv:                 *)
(* src/utils/csvParser.ts (parseFile, processData, mergeDatasets and the   *)
(* earlier strict mergeDatasets kept in the same file).                    *)
(*                                                                         *)
(* Strings are sequences of one-character strings, so that trimming,       *)
(* splitting, lower-casing, pattern matching and number conversion are     *)
(* computed character by character as the code computes them.              *)
(* Numbers are integers counted in hundredths (Scale), which keeps two     *)
(* fractional digits exact.  A timestamp is a triple <<class, day, rest>>: *)
(* class is -1, 0, 1 for -Infinity, finite, +Infinity; a finite timestamp  *)
(* is day * 86400000 ms + rest / Scale ms.  Local time is taken as UTC.    *)
(*                                                                         *)
(* Spec: parseFile, then merges with the current mergeDatasets.            *)
(* SpecStrict: the same, the earlier strict mergeDatasets included.        *)
(* SpecParse: parseFile alone over a wide range of cells, headers, axis    *)
(* values and sheet rows.  SpecSort: parseFile and mergeDatasets over      *)
(* files whose rows tie on the time axis.                                  *)
(*                                                                         *)
(* The handlers of src/App.tsx and src/components/ControlPanel.tsx act on  *)
(* the state of App; a handler with an await is two actions, its start and *)
(* its return, and waits in inflight between them.  SpecFilter, SpecSmooth *)
(* and SpecProject: the filter, the chart data and the project files.      *)
(* SpecAppend: appends that overlap in time.  SpecLoad: project files with *)
(* and without config.  SpecFrame: the operations on tables by reference.  *)
(***************************************************************************)
EXTENDS Integers, Sequences, FiniteSets, TLC

(***************************************************************************)
(* Characters and strings                                                  *)
(***************************************************************************)
Digits == {"0", "1", "2", "3", "4", "5", "6", "7", "8", "9"}

IsDigit(c) == c \in Digits

DigitVal(c) ==
  CASE c = "0" -> 0 [] c = "1" -> 1 [] c = "2" -> 2 [] c = "3" -> 3
    [] c = "4" -> 4 [] c = "5" -> 5 [] c = "6" -> 6 [] c = "7" -> 7
    [] c = "8" -> 8 [] c = "9" -> 9

\* String.prototype.trim and StrWhiteSpace strip the same characters.
IsSpace(c) == c \in {" ", "\t", "\n", "\r"}

Quote == "\""

Upper == <<"A", "B", "C", "D", "E", "F", "G", "H", "I", "J", "K", "L", "M",
           "N", "O", "P", "Q", "R", "S", "T", "U", "V", "W", "X", "Y", "Z">>

Lower == <<"a", "b", "c", "d", "e", "f", "g", "h", "i", "j", "k", "l", "m",
           "n", "o", "p", "q", "r", "s", "t", "u", "v", "w", "x", "y", "z">>

LowerChar(c) ==
  IF \E i \in 1..26 : Upper[i] = c
  THEN Lower[CHOOSE i \in 1..26 : Upper[i] = c]
  ELSE c

Range(seq) == {seq[i] : i \in 1..Len(seq)}

\* String.prototype.toLowerCase
ToLowerCase(s) == [i \in 1..Len(s) |-> LowerChar(s[i])]

\* s.slice(from - 1): the characters from position from (1-based) on.
Drop(s, from) == IF from > Len(s) THEN <<>> ELSE SubSeq(s, from, Len(s))

RECURSIVE TrimStart(_)
TrimStart(s) ==
  IF s # <<>> /\ IsSpace(Head(s)) THEN TrimStart(Tail(s)) ELSE s

RECURSIVE TrimEnd(_)
TrimEnd(s) ==
  IF s # <<>> /\ IsSpace(s[Len(s)]) THEN TrimEnd(SubSeq(s, 1, Len(s) - 1)) ELSE s

\* String.prototype.trim
Trim(s) == TrimEnd(TrimStart(s))

\* val.replace(/^"|"$/g, ''): drops a leading quote, and a trailing quote
\* that is not the same character.
StripQuotes(s) ==
  LET a == IF s # <<>> /\ Head(s) = Quote THEN Tail(s) ELSE s
  IN  IF a # <<>> /\ a[Len(a)] = Quote THEN SubSeq(a, 1, Len(a) - 1) ELSE a

\* String.prototype.includes
Includes(s, k) ==
  \E i \in 1..(Len(s) - Len(k) + 1) : SubSeq(s, i, i + Len(k) - 1) = k

\* String.prototype.endsWith
EndsWith(s, k) ==
  Len(s) >= Len(k) /\ SubSeq(s, Len(s) - Len(k) + 1, Len(s)) = k

\* The index of the first position >= from whose character is in seps,
\* Len(s) + 1 when there is none.
RECURSIVE NextSep(_, _, _)
NextSep(s, from, seps) ==
  IF from > Len(s) THEN Len(s) + 1
  ELSE IF s[from] \in seps THEN from
  ELSE NextSep(s, from + 1, seps)

\* String.prototype.split on a one-character separator class.
RECURSIVE SplitOn(_, _)
SplitOn(s, seps) ==
  LET p == NextSep(s, 1, seps)
  IN  IF p > Len(s) THEN <<s>>
      ELSE <<SubSeq(s, 1, p - 1)>> \o SplitOn(Drop(s, p + 1), seps)

\* text.split(/\r\n|\n/)
RECURSIVE SplitLines(_)
SplitLines(s) ==
  LET p == NextSep(s, 1, {"\n"})
  IN  IF p > Len(s) THEN <<s>>
      ELSE LET cut == IF p > 1 /\ s[p - 1] = "\r" THEN p - 2 ELSE p - 1
           IN  <<SubSeq(s, 1, cut)>> \o SplitLines(Drop(s, p + 1))

CountQuotes(s) == Cardinality({i \in 1..Len(s) : s[i] = Quote})

\* A comma splits when an even number of quotes follows it up to the end of
\* the line: the lookahead (?=(?:(?:[^"]*"){2})*[^"]*$).
IsSplitComma(s, i) == s[i] = "," /\ CountQuotes(Drop(s, i + 1)) % 2 = 0

RECURSIVE NextSplitComma(_, _)
NextSplitComma(s, from) ==
  IF from > Len(s) THEN Len(s) + 1
  ELSE IF IsSplitComma(s, from) THEN from
  ELSE NextSplitComma(s, from + 1)

\* line.split(/,(?=(?:(?:[^"]*"){2})*[^"]*$)/)
RECURSIVE SplitCsv(_)
SplitCsv(s) ==
  LET p == NextSplitComma(s, 1)
  IN  IF p > Len(s) THEN <<s>>
      ELSE <<SubSeq(s, 1, p - 1)>> \o SplitCsv(Drop(s, p + 1))

\* The value of the leading run of decimal digits, as parseInt reads it.
RECURSIVE DigitsValue(_, _)
DigitsValue(s, acc) ==
  IF s # <<>> /\ IsDigit(Head(s))
  THEN DigitsValue(Tail(s), acc * 10 + DigitVal(Head(s)))
  ELSE acc

\* parseInt(s, 10) of a string that starts with a digit.
ParseInt(s) == DigitsValue(s, 0)

AllDigits(s) == \A i \in 1..Len(s) : IsDigit(s[i])

(***************************************************************************)
(* Cells and numbers                                                       *)
(***************************************************************************)
\* Numbers are held in hundredths.
Scale == 10 * 10

Undef == [k |-> "undef", s |-> <<>>, v |-> 0]

Str(s) == [k |-> "str", s |-> s, v |-> 0]

\* A finite number, v in hundredths.
Num(v) == [k |-> "num", s |-> <<>>, v |-> v]

\* +Infinity (sg = 1) or -Infinity (sg = -1), a value of type number.
Inf(sg) == [k |-> "inf", s |-> <<>>, v |-> sg]

NaN == [k |-> "nan", s |-> <<>>, v |-> 0]

\* typeof val === 'number'
IsNumber(c) == c.k \in {"num", "inf", "nan"}

\* typeof val === 'string'
IsString(c) == c.k = "str"

InfinityLit == <<"I", "n", "f", "i", "n", "i", "t", "y">>

\* The fraction digits f (at most two are exact) in hundredths.
FracValue(f) ==
  IF Len(f) = 0 THEN 0
  ELSE IF Len(f) = 1 THEN DigitVal(f[1]) * 10
  ELSE DigitVal(f[1]) * 10 + DigitVal(f[2])

\* StrUnsignedDecimalLiteral without an exponent part: Infinity, digits,
\* digits '.' digits, '.' digits.
UnsignedNumber(s) ==
  IF s = InfinityLit THEN Inf(1)
  ELSE LET p == NextSep(s, 1, {"."})
           ip == SubSeq(s, 1, p - 1)
           fp == Drop(s, p + 1)
       IN  IF ~AllDigits(ip) \/ ~AllDigits(fp) THEN NaN
           ELSE IF Len(ip) = 0 /\ Len(fp) = 0 THEN NaN
           ELSE Num(ParseInt(ip) * Scale + FracValue(fp))

Negate(n) ==
  IF n.k = "num" THEN Num(0 - n.v)
  ELSE IF n.k = "inf" THEN Inf(0 - n.v)
  ELSE n

\* NumberOf reading as parseFloat does: the longest numeric prefix, NaN when
\* there is none.
NumberOf_ParseFloat(s) ==
  LET t == TrimStart(s)
      neg == t # <<>> /\ Head(t) = "-"
      u == IF t # <<>> /\ Head(t) \in {"-", "+"} THEN Tail(t) ELSE t
      n == NextSep(u, 1, {c \in Range(u) : ~IsDigit(c)})
      ip == SubSeq(u, 1, n - 1)
      fr == IF n <= Len(u) /\ u[n] = "." THEN Drop(u, n + 1) ELSE <<>>
      m == NextSep(fr, 1, {c \in Range(fr) : ~IsDigit(c)})
      fp == SubSeq(fr, 1, m - 1)
      val == IF Len(u) >= 8 /\ SubSeq(u, 1, 8) = InfinityLit THEN Inf(1)
             ELSE IF Len(ip) = 0 /\ Len(fp) = 0 THEN NaN
             ELSE Num(ParseInt(ip) * Scale + FracValue(fp))
  IN  IF neg THEN Negate(val) ELSE val

\* Number(val) of a string: white space is stripped, the empty string is 0,
\* a sign may precede the literal, anything else is NaN.  Exponents and
\* 0x/0o/0b literals are not in the alphabet of the modelled cells.
NumberOf(s) ==
  LET t == Trim(s)
  IN  IF t = <<>> THEN Num(0)
      ELSE IF Head(t) = "-" THEN Negate(UnsignedNumber(Tail(t)))
      ELSE IF Head(t) = "+" THEN UnsignedNumber(Tail(t))
      ELSE UnsignedNumber(t)

\* isNaN(x)
IsNaN(n) == n.k = "nan"

(***************************************************************************)
(* Dates                                                                   *)
(***************************************************************************)
\* /^\d{4}-\d{2}-\d{2}/
MatchIso(s) ==
  /\ Len(s) >= 10
  /\ \A i \in {1, 2, 3, 4, 6, 7, 9, 10} : IsDigit(s[i])
  /\ s[5] = "-" /\ s[8] = "-"

\* /^\d{2}\.\d{2}\.\d{4}/
MatchDot(s) ==
  /\ Len(s) >= 10
  /\ \A i \in {1, 2, 4, 5, 7, 8, 9, 10} : IsDigit(s[i])
  /\ s[3] = "." /\ s[6] = "."

\* /^\d{2}\/\d{2}\/\d{4}/
MatchSlashDMY(s) ==
  /\ Len(s) >= 10
  /\ \A i \in {1, 2, 4, 5, 7, 8, 9, 10} : IsDigit(s[i])
  /\ s[3] = "/" /\ s[6] = "/"

isDateString(c) ==
  /\ IsString(c)
  /\ (MatchIso(c.s) \/ MatchDot(c.s) \/ MatchSlashDMY(c.s))

IsLeap(y) == (y % 4 = 0 /\ y % 100 # 0) \/ y % 400 = 0

DaysInMonth(y, m) ==
  IF m = 2 THEN (IF IsLeap(y) THEN 29 ELSE 28)
  ELSE IF m \in {4, 6, 9, 11} THEN 30
  ELSE 31

\* Days from 1970-01-01 to the civil date y-m-d (m in 1..12).
DaysFromCivil(y, m, d) ==
  LET yy  == IF m <= 2 THEN y - 1 ELSE y
      era == yy \div 400
      yoe == yy - era * 400
      mp  == IF m > 2 THEN m - 3 ELSE m + 9
      doy == (153 * mp + 2) \div 5 + d - 1
      doe == yoe * 365 + yoe \div 4 - yoe \div 100 + doy
  IN  era * 146097 + doe - 719468

\* A finite timestamp of whole days.
DayStamp(days) == <<0, days, 0>>

\* new Date(y, m, d).getTime(): m is zero-based and may overflow, d may
\* overflow, years 0..99 mean 1900..1999.
DateLocal(y, m, d) ==
  LET fy == IF y >= 0 /\ y <= 99 THEN 1900 + y ELSE y
      ny == fy + (m \div 12)
      nm == (m % 12) + 1
  IN  DayStamp(DaysFromCivil(ny, nm, 1) + d - 1)

\* /^\d{4}\/\d{2}\/\d{2}$/
MatchSlashYMD(s) ==
  /\ Len(s) = 10
  /\ \A i \in {1, 2, 3, 4, 6, 7, 9, 10} : IsDigit(s[i])
  /\ s[5] = "/" /\ s[8] = "/"

ValidYMD(y, m, d) == m \in 1..12 /\ d >= 1 /\ d <= DaysInMonth(y, m)

\* new Date(val) of a string that matched neither explicit pattern, as the
\* engine's parser reads it: YYYY/MM/DD and MM/DD/YYYY are local dates,
\* text without digits is invalid.  <<FALSE, _>> is an invalid date.
DateFromString(s) ==
  IF MatchSlashYMD(s)
  THEN LET y == ParseInt(SubSeq(s, 1, 4))
           m == ParseInt(SubSeq(s, 6, 7))
           d == ParseInt(SubSeq(s, 9, 10))
       IN  IF ValidYMD(y, m, d) THEN <<TRUE, DateLocal(y, m - 1, d)>>
           ELSE <<FALSE, DayStamp(0)>>
  ELSE IF MatchSlashDMY(s) /\ Len(s) = 10
  THEN LET m == ParseInt(SubSeq(s, 1, 2))
           d == ParseInt(SubSeq(s, 4, 5))
           y == ParseInt(SubSeq(s, 7, 10))
       IN  IF ValidYMD(y, m, d) THEN <<TRUE, DateLocal(y, m - 1, d)>>
           ELSE <<FALSE, DayStamp(0)>>
  ELSE <<FALSE, DayStamp(0)>>

\* Helper to parse a cell into a comparable timestamp.
parseDateToTimestamp(val) ==
  IF val.k = "num" THEN <<0, 0, val.v>>
  ELSE IF val.k = "inf" THEN <<val.v, 0, 0>>
  ELSE IF ~IsString(val) THEN DayStamp(0)
  ELSE IF MatchIso(val.s) /\ Len(SplitOn(val.s, {"-", "T", " "})) >= 3
  THEN LET parts == SplitOn(val.s, {"-", "T", " "})
       IN  DateLocal(ParseInt(parts[1]), ParseInt(parts[2]) - 1, ParseInt(parts[3]))
  ELSE IF MatchDot(val.s)
  THEN LET parts == SplitOn(val.s, {"."})
       IN  DateLocal(ParseInt(parts[3]), ParseInt(parts[2]) - 1, ParseInt(parts[1]))
  ELSE LET d == DateFromString(val.s)
       IN  IF d[1] THEN d[2] ELSE DayStamp(0)

\* The sign of tA - tB as Array.prototype.sort reads it: Infinity - Infinity
\* is NaN, which sort takes as 0.
TimeCompare(tA, tB) ==
  IF tA[1] # tB[1] THEN (IF tA[1] < tB[1] THEN -1 ELSE 1)
  ELSE IF tA[1] # 0 THEN 0
  ELSE IF tA[2] # tB[2] THEN (IF tA[2] < tB[2] THEN -1 ELSE 1)
  ELSE IF tA[3] # tB[3] THEN (IF tA[3] < tB[3] THEN -1 ELSE 1)
  ELSE 0

(***************************************************************************)
(* Records (DataPoint) and tables (ParsedData)                             *)
(***************************************************************************)
\* A DataPoint is a function from the keys it holds to cells.
EmptyRow == <<>>

\* row[h], undefined when the key is absent.
Get(row, h) == IF h \in DOMAIN row THEN row[h] ELSE Undef

\* row[h] = c
SetKey(row, h, c) ==
  [k \in (DOMAIN row) \cup {h} |-> IF k = h THEN c ELSE row[k]]

\* fileName of a table built without one.
NoName == <<>>

\* lastModified (Date.now()) is not part of the modelled table.
Table(headers, rows, fileName, hasTimeAxis) ==
  [headers |-> headers, rows |-> rows, fileName |-> fileName,
   hasTimeAxis |-> hasTimeAxis]

\* { headers: [], rows: [], hasTimeAxis: false }
EmptyTable == Table(<<>>, <<>>, NoName, FALSE)

\* headers.find that returns the last header with a keyword.
FirstWithKeyword_Last(headers, keywords) ==
  LET hit(h) == \E k \in keywords : Includes(ToLowerCase(h), k)
  IN  IF \E i \in 1..Len(headers) : hit(headers[i])
      THEN headers[CHOOSE i \in 1..Len(headers) :
                     /\ hit(headers[i])
                     /\ \A j \in (i + 1)..Len(headers) : ~hit(headers[j])]
      ELSE <<>>

\* Array.prototype.find over headers: the first header that satisfies the
\* keyword test, '' when none does.
FirstWithKeyword(headers, keywords) ==
  LET hit(h) == \E k \in keywords : Includes(ToLowerCase(h), k)
  IN  IF \E i \in 1..Len(headers) : hit(headers[i])
      THEN headers[CHOOSE i \in 1..Len(headers) :
                     /\ hit(headers[i])
                     /\ \A j \in 1..(i - 1) : ~hit(headers[j])]
      ELSE <<>>

Kdatum == <<"d", "a", "t", "u", "m">>
Kdate == <<"d", "a", "t", "e">>
Kzeit == <<"z", "e", "i", "t">>
Ktime == <<"t", "i", "m", "e">>
Ktimestamp == <<"t", "i", "m", "e", "s", "t", "a", "m", "p">>
Kcreated == <<"c", "r", "e", "a", "t", "e", "d">>

\* processKeywords with the list of mergeDatasets.
processKeywords_AsMerge == {Kdatum, Kdate, Kzeit, Ktime}

\* timeKeywords of processData
processKeywords == {Kdatum, Kdate, Kzeit, Ktime, Ktimestamp, Kcreated}

\* timeKeywords of mergeDatasets
mergeKeywords == {Kdatum, Kdate, Kzeit, Ktime}

\* timeHeader of processData
processTimeHeader(headers) == FirstWithKeyword(headers, processKeywords)

\* timeHeader of mergeDatasets
mergeTimeHeader(headers) == FirstWithKeyword(headers, mergeKeywords)

(***************************************************************************)
(* Sorting                                                                 *)
(***************************************************************************)
\* InsertRow with the comparison turned round (tB - tA): a descending sort.
InsertRow_Descending(sorted, x) ==
  LET later == {i \in 1..Len(sorted) : TimeCompare(sorted[i][1], x[1]) < 0}
      p == IF later = {} THEN Len(sorted) + 1
           ELSE CHOOSE i \in later : \A j \in later : i <= j
  IN  SubSeq(sorted, 1, p - 1) \o <<x>> \o Drop(sorted, p)

\* InsertRow that puts x before the rows it ties with: an unstable sort.
InsertRow_Unstable(sorted, x) ==
  LET later == {i \in 1..Len(sorted) : TimeCompare(sorted[i][1], x[1]) >= 0}
      p == IF later = {} THEN Len(sorted) + 1
           ELSE CHOOSE i \in later : \A j \in later : i <= j
  IN  SubSeq(sorted, 1, p - 1) \o <<x>> \o Drop(sorted, p)

\* One step of a stable sort of <<timestamp, row>> pairs: x, which came
\* after every pair of sorted, goes before the first pair whose timestamp
\* compares greater than that of x.
InsertRow(sorted, x) ==
  LET later == {i \in 1..Len(sorted) : TimeCompare(sorted[i][1], x[1]) > 0}
      p == IF later = {} THEN Len(sorted) + 1
           ELSE CHOOSE i \in later : \A j \in later : i <= j
  IN  SubSeq(sorted, 1, p - 1) \o <<x>> \o Drop(sorted, p)

RECURSIVE SortFrom(_, _, _)
SortFrom(pairs, i, acc) ==
  IF i > Len(pairs) THEN acc
  ELSE SortFrom(pairs, i + 1, InsertRow(acc, pairs[i]))

\* StableSort that returns the sorted rows last to first.
StableSort_Reverse(rows, times) ==
  LET pairs == [i \in 1..Len(rows) |-> <<times[i], rows[i]>>]
      sorted == SortFrom(pairs, 1, <<>>)
  IN  [i \in 1..Len(rows) |-> sorted[Len(rows) + 1 - i][2]]

\* Array.prototype.sort with a comparator (a, b) => t(a) - t(b), times[i]
\* being t(rows[i]): stable (ECMAScript 2019).
StableSort(rows, times) ==
  LET pairs == [i \in 1..Len(rows) |-> <<times[i], rows[i]>>]
      sorted == SortFrom(pairs, 1, <<>>)
  IN  [i \in 1..Len(rows) |-> sorted[i][2]]

\* tA, tB of processData's comparator
processTime(timeHeader, a) == parseDateToTimestamp(Get(a, timeHeader))

\* a[timeHeader] || '': undefined, 0 and '' all become ''.
OrEmpty(c) ==
  IF c = Undef \/ c = Num(0) \/ c = Str(<<>>) \/ c.k = "nan"
  THEN Str(<<>>) ELSE c

\* tA, tB of mergeDatasets' comparator
mergeTime(timeHeader, a) == parseDateToTimestamp(OrEmpty(Get(a, timeHeader)))

(***************************************************************************)
(* processData                                                             *)
(***************************************************************************)
\* A raw row is a positional array (spreadsheet) or an object keyed by
\* header (delimited text).  A hole of an array is Undef.
RawArray(cells) == [isArray |-> TRUE, arr |-> cells, obj |-> EmptyRow]

RawObject(obj) == [isArray |-> FALSE, arr |-> <<>>, obj |-> obj]

\* Object.keys(rawRow).length
RawKeyCount(rawRow) ==
  IF rawRow.isArray
  THEN Cardinality({i \in 1..Len(rawRow.arr) : rawRow.arr[i] # Undef})
  ELSE Cardinality(DOMAIN rawRow.obj)

\* Array.isArray(rawRow) ? rawRow[index] : rawRow[header]
RawAt(rawRow, header, index) ==
  IF rawRow.isArray
  THEN (IF index <= Len(rawRow.arr) THEN rawRow.arr[index] ELSE Undef)
  ELSE Get(rawRow.obj, header)

\* val !== undefined && val !== null && val !== ''
Present(val) == val # Undef /\ val # Str(<<>>)

\* The value stored for a present raw value.
CoerceCell(val) ==
  IF IsString(val)
  THEN LET v == StripQuotes(Trim(val.s))
           n == NumberOf(v)
       IN  IF ~IsNaN(n) /\ v # <<>> /\ ~isDateString(Str(v))
           THEN n
           ELSE Str(v)
  ELSE val

\* headers.forEach((header, index) => ...) from index i on.
RECURSIVE CoerceFrom(_, _, _, _)
CoerceFrom(headers, rawRow, i, row) ==
  IF i > Len(headers) THEN row
  ELSE LET val == RawAt(rawRow, headers[i], i)
       IN  CoerceFrom(headers, rawRow, i + 1,
                      IF Present(val)
                      THEN SetKey(row, headers[i], CoerceCell(val))
                      ELSE row)

CoerceRow(headers, rawRow) == CoerceFrom(headers, rawRow, 1, EmptyRow)

\* isEmpty after the forEach
RowIsEmpty(headers, rawRow) ==
  \A i \in 1..Len(headers) : ~Present(RawAt(rawRow, headers[i], i))

\* Step 1 of processData: the rows pushed, in input order.
RECURSIVE CleanRows(_, _, _)
CleanRows(headers, rawRows, i) ==
  IF i > Len(rawRows) THEN <<>>
  ELSE LET rawRow == rawRows[i]
           rest == CleanRows(headers, rawRows, i + 1)
       IN  IF RawKeyCount(rawRow) = 0 THEN rest
           ELSE IF RowIsEmpty(headers, rawRow) THEN rest
           ELSE <<CoerceRow(headers, rawRow)>> \o rest

processData(headers, rawRows, fileName) ==
  LET timeHeader == processTimeHeader(headers)
      hasTimeAxis == timeHeader # <<>>
      rows == CleanRows(headers, rawRows, 1)
      times == [i \in 1..Len(rows) |-> processTime(timeHeader, rows[i])]
  IN  Table(headers,
            IF hasTimeAxis THEN StableSort(rows, times) ELSE rows,
            fileName, hasTimeAxis)

(***************************************************************************)
(* parseFile                                                               *)
(***************************************************************************)
\* A file: its name, its text (delimited text) and the rows that
\* XLSX.utils.sheet_to_json(worksheet, {header: 1}) yields for it
\* (spreadsheet), each a sequence of cells.
File(name, text, grid) == [name |-> name, text |-> text, grid |-> grid]

ExtXlsx == <<".", "x", "l", "s", "x">>
ExtXls == <<".", "x", "l", "s">>

isExcel(file) == EndsWith(file.name, ExtXlsx) \/ EndsWith(file.name, ExtXls)

\* String(h).trim() of a header cell holding text.
HeaderString(c) == Trim(c.s)

\* rowObj of parseFile: headers.forEach((h, i) => rowObj[h] = vals[i])
RECURSIVE RowObjFrom(_, _, _, _)
RowObjFrom(headers, vals, i, obj) ==
  IF i > Len(headers) THEN obj
  ELSE RowObjFrom(headers, vals, i + 1,
                  SetKey(obj, headers[i],
                         IF i <= Len(vals) THEN Str(vals[i]) ELSE Undef))

\* jsonData.length < 2, lines.length < 2
\* tooShort that asks for one line only.
tooShort_OneLine(file) ==
  IF isExcel(file) THEN Len(file.grid) < 1
  ELSE Len(SplitLines(Trim(file.text))) < 1

tooShort(file) ==
  IF isExcel(file) THEN Len(file.grid) < 2
  ELSE Len(SplitLines(Trim(file.text))) < 2

\* headers of parseFile, for a file that is not too short
fileHeaders(file) ==
  IF isExcel(file)
  THEN [i \in 1..Len(file.grid[1]) |-> HeaderString(file.grid[1][i])]
  ELSE LET fields == SplitCsv(SplitLines(Trim(file.text))[1])
       IN  [i \in 1..Len(fields) |-> StripQuotes(Trim(fields[i]))]

\* dataRows of parseFile, for a file that is not too short
fileRawRows(file) ==
  IF isExcel(file)
  THEN [i \in 1..(Len(file.grid) - 1) |-> RawArray(file.grid[i + 1])]
  ELSE LET lines == SplitLines(Trim(file.text))
           headers == fileHeaders(file)
       IN  [i \in 1..(Len(lines) - 1) |->
              RawObject(RowObjFrom(headers, SplitCsv(lines[i + 1]), 1, EmptyRow))]

parseFile(file) ==
  IF tooShort(file) THEN EmptyTable
  ELSE processData(fileHeaders(file), fileRawRows(file), file.name)

(***************************************************************************)
(* mergeDatasets                                                           *)
(***************************************************************************)
\* Array.from(new Set(seq)): the first occurrence of each element, in order.
RECURSIVE Dedup(_)
Dedup(seq) ==
  IF seq = <<>> THEN <<>>
  ELSE LET init == Dedup(SubSeq(seq, 1, Len(seq) - 1))
           last == seq[Len(seq)]
       IN  IF last \in Range(init) THEN init ELSE Append(init, last)

\* mergeDatasets that returns the existing headers.
mergeDatasets_KeepHeaders(existing, incoming) ==
  [existing EXCEPT !.rows = existing.rows \o incoming.rows]

mergeDatasets(existing, incoming) ==
  LET timeHeader == mergeTimeHeader(existing.headers)
      newHeaders == Dedup(existing.headers \o incoming.headers)
      newRows == existing.rows \o incoming.rows
      times == [i \in 1..Len(newRows) |-> mergeTime(timeHeader, newRows[i])]
  IN  Table(newHeaders,
            IF timeHeader # <<>> THEN StableSort(newRows, times) ELSE newRows,
            existing.fileName,
            existing.hasTimeAxis \/ incoming.hasTimeAxis)

\* The earlier mergeDatasets: its guard ...
strictOverlap(existing, incoming) ==
  SelectSeq(incoming.headers, LAMBDA h : h \in Range(existing.headers))

\* strictNormalize that keeps every key of the incoming row.
strictNormalize_KeepAll(existing, row) == row

\* ... its normalisation of one incoming row to the existing headers ...
strictNormalize(existing, row) ==
  [h \in {k \in Range(existing.headers) : Get(row, k) # Undef} |-> row[h]]

\* ... and its result when it does not throw.
mergeDatasetsStrict(existing, incoming) ==
  LET normalizedNewRows == [i \in 1..Len(incoming.rows) |->
                              strictNormalize(existing, incoming.rows[i])]
  IN  [existing EXCEPT !.rows = existing.rows \o normalizedNewRows]

(***************************************************************************)
(* filteredRows                                                            *)
(***************************************************************************)
\* The characters of the modelled texts, in the order of their code units.
CodeOrder ==
  <<"\t", "\n", "\r", " ", "!", "\"", "#", "$", "%", "&", "'", "(", ")",
    "*", "+", ",", "-", ".", "/", "0", "1", "2", "3", "4", "5", "6", "7",
    "8", "9", ":", ";", "<", "=", ">", "?", "@", "A", "B", "C", "D", "E",
    "F", "G", "H", "I", "J", "K", "L", "M", "N", "O", "P", "Q", "R", "S",
    "T", "U", "V", "W", "X", "Y", "Z", "[", "\\", "]", "^", "_", "a",
    "b", "c", "d", "e", "f", "g", "h", "i", "j", "k", "l", "m", "n", "o",
    "p", "q", "r", "s", "t", "u", "v", "w", "x", "y", "z", "{", "|", "}",
    "~">>

Code(c) == CHOOSE i \in 1..Len(CodeOrder) : CodeOrder[i] = c

\* The comparison of two strings by code units: -1, 0 or 1.
RECURSIVE StringCompare(_, _)
StringCompare(a, b) ==
  IF a = <<>> THEN (IF b = <<>> THEN 0 ELSE 0 - 1)
  ELSE IF b = <<>> THEN 1
  ELSE IF Code(Head(a)) < Code(Head(b)) THEN 0 - 1
  ELSE IF Code(Head(a)) > Code(Head(b)) THEN 1
  ELSE StringCompare(Tail(a), Tail(b))

\* ChartConfigState, with the fields of both versions of types.ts;
\* strokeWidth in hundredths.
Config(xAxisKey, activeLines, showGrid, start, end, smoothing, strokeWidth) ==
  [xAxisKey |-> xAxisKey, activeLines |-> activeLines, showGrid |-> showGrid,
   filterStart |-> start, filterEnd |-> end,
   smoothing |-> smoothing, strokeWidth |-> strokeWidth]

\* The callback of data.rows.filter that keeps every row.
passRow_KeepAll(row, config) == TRUE

\* The callback of data.rows.filter.
passRow(row, config) ==
  LET val == Get(row, config.xAxisKey)
      passStart == config.filterStart # <<>>
                     => StringCompare(val.s, config.filterStart) >= 0
      passEnd == config.filterEnd # <<>>
                   => StringCompare(val.s, config.filterEnd) <= 0
  IN  IF ~IsString(val) THEN TRUE ELSE passStart /\ passEnd

\* The memo filteredRows; hasData is data !== null.
filteredRows(hasData, data, config) ==
  IF ~hasData THEN <<>>
  ELSE IF config.filterStart = <<>> /\ config.filterEnd = <<>> THEN data.rows
  ELSE SelectSeq(data.rows, LAMBDA row : passRow(row, config))

(***************************************************************************)
(* chartData                                                               *)
(***************************************************************************)
Max(a, b) == IF a >= b THEN a ELSE b

\* a + b of two numbers, either of which may be infinite or NaN.
JsAdd(a, b) ==
  IF a.k = "nan" \/ b.k = "nan" THEN NaN
  ELSE IF a.k = "inf" /\ b.k = "inf" THEN (IF a.v = b.v THEN a ELSE NaN)
  ELSE IF a.k = "inf" THEN a
  ELSE IF b.k = "inf" THEN b
  ELSE Num(a.v + b.v)

\* subset.reduce((acc, curr) => acc + (number ? curr[key] : 0), 0)
RECURSIVE ReduceSum(_, _)
ReduceSum(subset, key) ==
  IF subset = <<>> THEN Num(0)
  ELSE LET val == Get(subset[Len(subset)], key)
       IN  JsAdd(ReduceSum(SubSeq(subset, 1, Len(subset) - 1), key),
                 IF IsNumber(val) THEN val ELSE Num(0))

\* calculateMovingAverage that divides by windowSize in every row.
calculateMovingAverage_FullWindow(rows, key, windowSize) ==
  [index \in 1..Len(rows) |->
     [sum |-> ReduceSum(SubSeq(rows, Max(1, index - windowSize + 1), index),
                        key),
      len |-> windowSize]]

\* calculateMovingAverage: for each row the quotient sum / subset.length,
\* held as the pair of sum and length; rows count from 1.
calculateMovingAverage(rows, key, windowSize) ==
  [index \in 1..Len(rows) |->
     LET start == Max(1, index - windowSize + 1)
         subset == SubSeq(rows, start, index)
     IN  [sum |-> ReduceSum(subset, key), len |-> Len(subset)]]

\* Number(q.toFixed(2)) of a quotient: Infinity and NaN stay; a finite
\* quotient goes to the nearest hundredth.  A tie of the exact quotient,
\* which toFixed decides by the binary value of the quotient, goes away
\* from zero here.
RoundedQuotient(q) ==
  IF q.sum.k # "num" THEN q.sum
  ELSE LET a == IF q.sum.v < 0 THEN 0 - q.sum.v ELSE q.sum.v
           r == (2 * a + q.len) \div (2 * q.len)
       IN  Num(IF q.sum.v < 0 THEN 0 - r ELSE r)

\* config.activeLines.forEach(key => smoothedRows.forEach(row[key] = ...))
RECURSIVE smoothLines(_, _, _, _)
smoothLines(smoothedRows, rows, lines, windowSize) ==
  IF lines = <<>> THEN smoothedRows
  ELSE LET key == Head(lines)
           averages == calculateMovingAverage(rows, key, windowSize)
           written == [i \in 1..Len(smoothedRows) |->
                         SetKey(smoothedRows[i], key,
                                RoundedQuotient(averages[i]))]
       IN  smoothLines(written, rows, Tail(lines), windowSize)

\* The test of chartData that takes only the window 0 as no smoothing.
smoothingOff_ZeroOnly(config) == config.smoothing <= 0

\* The test config.smoothing <= 1 of chartData.
smoothingOff(config) == config.smoothing <= 1

\* The memo chartData of the earlier MainChart.
chartData(data, config) ==
  IF smoothingOff(config) THEN data.rows
  ELSE smoothLines(data.rows, data.rows, config.activeLines, config.smoothing)

(***************************************************************************)
(* Project files                                                           *)
(***************************************************************************)
\* null, the JSON value.
Null == [k |-> "null", s |-> <<>>, v |-> 0]

\* JSON.stringify of a cell: a finite number and a string are written as
\* they are, Infinity and NaN are written as null.
JsonCell(c) == IF c.k \in {"inf", "nan"} THEN Null ELSE c

\* JSON.stringify of a record: a key whose value is undefined is left out.
JsonRow(row) ==
  [h \in {k \in DOMAIN row : row[k] # Undef} |-> JsonCell(row[h])]

\* JSON.stringify of a table; a fileName that is undefined is left out, and
\* reads as undefined again.
JsonTable(t) ==
  [t EXCEPT !.rows = [i \in 1..Len(t.rows) |-> JsonRow(t.rows[i])]]

ProjectType == <<"s", "c", "h", "a", "l", "-", "l", "e", "d", "-",
                 "p", "r", "o", "j", "e", "c", "t">>

\* The text of a project file as the value JSON.parse reads from it:
\* parses says whether JSON.parse returns, hasProjectData whether the
\* member data is there.  version and savedAt are never read.
ProjectFile(parses, type, hasProjectData, projectData, projectConfig) ==
  [parses |-> parses, type |-> type, hasData |-> hasProjectData,
   data |-> projectData, config |-> projectConfig]

\* JSON.stringify of the configuration: its strings, booleans, finite
\* numbers and the list of strings are written as they are.
JsonConfig(config) ==
  [config EXCEPT !.activeLines = [i \in 1..Len(@) |-> @[i]]]

\* JSON.stringify(project, null, 2) of handleSaveProject.
StringifyProject(data, config) ==
  ProjectFile(TRUE, ProjectType, TRUE, JsonTable(data), JsonConfig(config))

(***************************************************************************)
(* Input files                                                             *)
(***************************************************************************)
RECURSIVE Join(_, _)
Join(parts, sep) ==
  IF parts = <<>> THEN <<>>
  ELSE IF Len(parts) = 1 THEN parts[1]
  ELSE parts[1] \o sep \o Join(Tail(parts), sep)

\* The text of a delimited file: a header line and data lines, each a
\* sequence of fields, every line ended by a line feed.
CsvText(headerFields, dataLines) ==
  Join(<<Join(headerFields, <<",">>)>>
       \o [i \in 1..Len(dataLines) |-> Join(dataLines[i], <<",">>)],
       <<"\n">>) \o <<"\n">>

\* All sequences over S of length 0..n.
RECURSIVE SeqsUpTo(_, _)
SeqsUpTo(S, n) ==
  IF n = 0 THEN {<<>>}
  ELSE LET shorter == SeqsUpTo(S, n - 1)
       IN  shorter \cup {Append(q, x) : q \in shorter, x \in S}

NameCsv == <<"a", ".", "c", "s", "v">>
NameXlsx == <<"b", ".", "x", "l", "s", "x">>

hDatum == <<"D", "a", "t", "u", "m">>
hCreated == <<"C", "r", "e", "a", "t", "e", "d">>
hA == <<"A">>
hB == <<"B">>

d20240101 == <<"2", "0", "2", "4", "-", "0", "1", "-", "0", "1">>
d20240102 == <<"2", "0", "2", "4", "-", "0", "1", "-", "0", "2">>

\* Files parsed in the merge specifications: up to MaxLines data lines.
MaxLines == 1

MergeHeaderLines ==
  {<<hDatum, hA>>, <<hDatum, hB>>, <<hCreated, hA>>, <<hA, hA>>}

MergeDataLines ==
  {<<d20240102, <<"5">>>>, <<d20240101, <<"3">>>>, <<<<"x">>, <<"1">>>>}

Files ==
  {File(NameCsv, CsvText(h, ls), <<>>) :
     h \in MergeHeaderLines, ls \in SeqsUpTo(MergeDataLines, MaxLines)}

\* Files merged into a stored table: a file without a data line, and files
\* of one data line.
AppendDataLines == {<<d20240101, <<"3">>>>, <<<<"x">>, <<"1">>>>}

AppendFiles ==
  {File(NameCsv, CsvText(<<hDatum, hA>>, <<>>), <<>>)} \cup
  {File(NameCsv, CsvText(h, <<l>>), <<>>) :
     h \in MergeHeaderLines, l \in AppendDataLines}

\* Files of the sort specification: a time axis, up to MaxSortLines data
\* lines; the two dated lines have the same day in two notations and the
\* two x lines both fall back to timestamp 0.
MaxSortLines == 2

dot01012024 == <<"0", "1", ".", "0", "1", ".", "2", "0", "2", "4">>

SortDataLines ==
  {<<d20240101, <<"1">>>>, <<dot01012024, <<"1">>>>,
   <<<<"x">>, <<"1">>>>, <<<<"x">>, <<"2">>>>}

SortFiles ==
  {File(NameCsv, CsvText(<<hDatum, hA>>, ls), <<>>) :
     ls \in SeqsUpTo(SortDataLines, MaxSortLines)}

\* Files merged in the sort specification: one data line each.
SortAppendFiles ==
  {File(NameCsv, CsvText(<<hDatum, hA>>, <<l>>), <<>>) : l \in SortDataLines}

\* Files of the parse specification.
\* Raw cells of a delimited line under the headers a, b.
RawCells ==
  {<<"5">>,
   <<" ", "5", " ">>,
   <<"\"", "5", "\"">>,
   <<"1", ".", "5">>,
   <<"-", "3">>,
   <<"+", "7">>,
   <<".", "5">>,
   <<"5", ".">>,
   <<"1", ".", "2", ".", "3">>,
   <<"-">>,
   <<"I", "n", "f", "i", "n", "i", "t", "y">>,
   <<"-", "I", "n", "f", "i", "n", "i", "t", "y">>,
   <<"N", "a", "N">>,
   <<"a", "b", "c">>,
   <<>>,
   <<" ">>,
   <<"\"", "\"">>,
   <<"\"", " ", "\"">>,
   <<"\"", "x", ",", "y", "\"">>,
   <<"2", "0", "2", "4", "-", "0", "1", "-", "0", "2">>,
   <<"2", "0", "2", "4", "-", "0", "1", "-", "0", "2", "T", "1", "0", ":", "0", "0">>,
   <<"2", "0", "2", "4", "-", "0", "1", "-", "0", "2", " ", "1", "0", ":", "0", "0">>,
   <<"\"", "2", "0", "2", "4", "-", "0", "1", "-", "0", "2", "\"">>,
   <<"0", "1", ".", "0", "2", ".", "2", "0", "2", "4">>,
   <<"2", "0", "2", "4", "/", "0", "1", "/", "0", "2">>,
   <<"0", "2", "/", "0", "1", "/", "2", "0", "2", "4">>,
   <<"0">>}

CellLines ==
  {<<c>> : c \in RawCells} \cup {<<c, d>> : c \in RawCells, d \in RawCells}

CellFiles ==
  {File(NameCsv, CsvText(<<<<"a">>, <<"b">>>>, <<l>>), <<>>) : l \in CellLines}

\* Axis cells of a delimited line under the headers Datum, A.
AxisCells ==
  {<<"2", "0", "2", "4", "-", "0", "1", "-", "0", "2">>,
   <<"2", "0", "2", "4", "-", "0", "1", "-", "0", "1">>,
   <<"0", "1", ".", "0", "1", ".", "2", "0", "2", "4">>,
   <<"1", "9", "6", "9", "-", "1", "2", "-", "3", "1">>,
   <<"2", "0", "2", "4", "/", "0", "1", "/", "0", "2">>,
   <<"x">>,
   <<>>,
   <<"5">>,
   <<"-", "5">>,
   <<"I", "n", "f", "i", "n", "i", "t", "y">>,
   <<"0", "0", "5", "0", "-", "0", "1", "-", "0", "1">>}

\* Up to MaxAxisLines data lines.
MaxAxisLines == 2

AxisFiles ==
  {File(NameCsv, CsvText(<<hDatum, hA>>, ls), <<>>) :
     ls \in SeqsUpTo({<<c, <<"1">>>> : c \in AxisCells}, MaxAxisLines)}

\* Header names, some with a time keyword inside.
HeaderNames ==
  {<<"D", "a", "t", "u", "m">>,
   <<"D", "A", "T", "E">>,
   <<"Z", "e", "i", "t">>,
   <<"U", "p", "t", "i", "m", "e">>,
   <<"T", "i", "m", "e", "s", "t", "a", "m", "p">>,
   <<"C", "r", "e", "a", "t", "e", "d", "_", "A", "t">>,
   <<"I", "n", "d", "e", "x">>,
   <<"V", "a", "l", "u", "e">>,
   <<"A">>,
   <<"U", "p", "d", "a", "t", "e">>}

HeaderFiles ==
  {File(NameCsv, CsvText(<<g, h>>, <<<<<<"1">>, <<"2">>>>>>), <<>>) :
     g \in HeaderNames, h \in HeaderNames}

\* Cells of a sheet row; the header row of a sheet holds text.
SheetCells ==
  {Undef, Num(500), Num(0), Str(d20240101), Str(<<" ">>)}

\* Up to MaxSheetRows data rows of two cells each.
MaxSheetRows == 2

SheetFiles ==
  {File(NameXlsx, <<>>, <<<<Str(hDatum), Str(<<" ", "A">>)>>>> \o rs) :
     rs \in SeqsUpTo({<<c, d>> : c \in SheetCells, d \in SheetCells} \cup {<<>>},
                     MaxSheetRows)}

\* Files of fewer than two lines: no character, line feeds and blanks only,
\* a header line without line feed, a header line followed by blank lines,
\* a sheet without a row.
ShortFiles ==
  {File(NameCsv, <<>>, <<>>),
   File(NameCsv, <<"\n", " ", "\n">>, <<>>),
   File(NameCsv, <<"A", ",", "B">>, <<>>),
   File(NameCsv, <<"A", ",", "B", "\r", "\n", " ", "\n">>, <<>>),
   File(NameXlsx, <<>>, <<>>)}

\* Files of two columns whose two data lines stand in ascending order of
\* one column and in descending order of the other.
TwoAxisNames ==
  {<<"C", "r", "e", "a", "t", "e", "d", "_", "A", "t">>,
   <<"D", "A", "T", "E">>,
   <<"U", "p", "t", "i", "m", "e">>,
   <<"V", "a", "l", "u", "e">>}

TwoAxisFiles ==
  {File(NameCsv,
        CsvText(gh, <<<<d20240102, d20240101>>,
                      <<d20240101, d20240102>>>>), <<>>) :
     gh \in {p \in TwoAxisNames \X TwoAxisNames : p[1] # p[2]}}

\* Files with data lines that hold nothing, white space only, or commas
\* only, before or after a line of two numbers.
BlankLines == {<<>>, <<" ">>, <<" ", "\t">>, <<",">>, <<"1", ",", "2">>}

BlankLineFiles ==
  {File(NameCsv, Join(<<<<"A", ",", "B">>, k, l>>, <<"\n">>), <<>>) :
     k \in BlankLines, l \in BlankLines}

ParseFiles ==
  CellFiles \cup AxisFiles \cup HeaderFiles \cup SheetFiles \cup ShortFiles
    \cup TwoAxisFiles \cup BlankLineFiles

\* Files of the filter specification: up to MaxFilterLines data lines under
\* the headers Datum, A; the axis cell is a day, a day with a time, a text,
\* empty or a number.
MaxFilterLines == 2

d20240103 == <<"2", "0", "2", "4", "-", "0", "1", "-", "0", "3">>

FilterCells ==
  {d20240101, d20240102, d20240103,
   d20240102 \o <<"T", "1", "0", ":", "0", "0">>,
   <<"a", "b", "c">>, <<>>, <<"5">>}

FilterFiles ==
  {File(NameCsv, CsvText(<<hDatum, hA>>, ls), <<>>) :
     ls \in SeqsUpTo({<<c, <<"1">>>> : c \in FilterCells}, MaxFilterLines)}

\* The bounds of the range filter: none, or a day.
FilterBounds == {<<>>, d20240101, d20240102}

\* Files of the smoothing specification: up to MaxSmoothLines data lines
\* under the headers Datum, A, B, taken in a row from SmoothLines at any of
\* its lines, and around its end; the cells of A and B are numbers, a text,
\* empty or Infinity.
MaxSmoothLines == 3

SmoothLines ==
  <<<<d20240101, <<"1">>, <<"3">>>>,
    <<d20240102, <<"2">>, <<>>>>,
    <<d20240102, <<"x">>, <<"1", ".", "5">>>>,
    <<d20240103, <<"-", "4">>, <<"0">>>>,
    <<d20240103, InfinityLit, <<"2">>>>>>

SmoothFiles ==
  {File(NameCsv,
        CsvText(<<hDatum, hA, hB>>,
                [i \in 1..n |->
                   SmoothLines[((first + i - 2) % Len(SmoothLines)) + 1]]),
        <<>>) :
     n \in 0..MaxSmoothLines, first \in 1..Len(SmoothLines)}

\* The windows of the smoothing slider that are tried: 0..MaxSmoothing.
MaxSmoothing == 3

\* Files of the project specification: up to MaxProjectLines data lines
\* under the headers Datum, A.
MaxProjectLines == 2

ProjectLines ==
  {<<d20240101, <<"1">>>>, <<d20240102, InfinityLit>>, <<d20240102, <<"x">>>>}

ProjectFiles ==
  {File(NameCsv, CsvText(<<hDatum, hA>>, ls), <<>>) :
     ls \in SeqsUpTo(ProjectLines, MaxProjectLines)}

\* Files of the reference specification: up to MaxFrameLines data lines
\* under the headers Datum, A.
MaxFrameLines == 2

FrameLines ==
  {<<d20240102, <<"5">>>>, <<d20240101, <<"3">>>>, <<d20240101, <<"x">>>>}

FrameFiles ==
  {File(NameCsv, CsvText(<<hDatum, hA>>, ls), <<>>) :
     ls \in SeqsUpTo(FrameLines, MaxFrameLines)}

\* Files of the append specification: the tables that are stored first ...
BaseFiles ==
  {File(NameCsv, CsvText(<<hDatum, hA>>, <<<<d20240102, <<"5">>>>>>), <<>>),
   File(NameCsv, CsvText(<<hCreated, hA>>, <<<<d20240101, <<"3">>>>>>), <<>>)}

\* ... and the files appended to them: the same headers, one more header,
\* and no header in common.
MoreFiles ==
  {File(NameCsv, CsvText(<<hDatum, hA>>, <<<<d20240101, <<"3">>>>>>), <<>>),
   File(NameCsv, CsvText(<<hDatum, hB>>, <<<<d20240102, <<"4">>>>>>), <<>>),
   File(NameCsv, CsvText(<<hB>>, <<<<<<"7">>>>>>), <<>>)}

(***************************************************************************)
(* State                                                                   *)
(***************************************************************************)
VARIABLES
  data,      \* the stored table
  file,      \* the file given to the last parseFile
  parsed,    \* the table the last parseFile returned
  existing,  \* the first argument of the last merge
  op,        \* the last operation: none, parse, merge, mergeStrict,
             \* mergeError, config, save, load, loadError, reset, append,
             \* appendError
  merges,    \* the number of merges so far
  hasData,   \* data !== null in App
  config,    \* the state config of App
  error,     \* the state error of App: none, empty, project, read, merge
  loading,   \* the state loading of App
  inflight,  \* the handlers that wait for their file
  saved,     \* the project file handleSaveProject wrote last
  project,   \* the project file handleLoadProject read last
  filtered,  \* the memo filteredRows
  chart,     \* the memo chartData
  ingested,  \* the rows the ingestions that succeeded delivered, in the
             \* order of their completion
  heap,      \* the arrays and the records that are allocated, by reference
  snap,      \* heap as it was before the last operation on it
  args,      \* the two tables given to the operations on heap
  result,    \* the table the last operation on heap returned
  fop        \* the last operation on heap: none, alloc, merge, mergeStrict,
             \* mergeError, filter, smooth

appVars ==
  <<hasData, config, error, loading, inflight, saved, project, filtered, chart,
    ingested>>

frameVars == <<heap, snap, args, result, fop>>

vars == <<data, file, parsed, existing, op, merges, appVars, frameVars>>

\* The number of merges into one stored table.
MaxMerges == 2

NoFile == File(<<>>, <<>>, <<>>)

\* The configuration App starts with and resets to.
InitConfig == Config(<<>>, <<>>, TRUE, <<>>, <<>>, 0, 2 * Scale)

\* project.config of a project file without the key config, or with null.
UndefinedConfig == [undefined |-> TRUE]

\* App is rendered.  With config undefined the next render throws a
\* TypeError at config.filterStart, no error boundary catches it, and React
\* removes the component: nothing is shown and no handler can be started.
Mounted == config # UndefinedConfig

\* No project file: a text JSON.parse does not read.
NoProject == ProjectFile(FALSE, <<>>, FALSE, EmptyTable, InitConfig)

\* Nothing is saved yet.
NoSaved == [project |-> NoProject, data |-> EmptyTable, config |-> InitConfig]

\* Arrays and records by reference: arrs[a] is the array with the reference
\* a, a list of headers or of references to records; recs[r] is the record
\* with the reference r.  A new reference is the next number.
EmptyHeap == [arrs |-> <<>>, recs |-> <<>>]

\* A table by reference: its headers and its rows are references to arrays.
Handle(headers, rows, fileName, hasTimeAxis) ==
  [headers |-> headers, rows |-> rows, fileName |-> fileName,
   hasTimeAxis |-> hasTimeAxis]

NoHandle == Handle(0, 0, NoName, FALSE)

\* The records an array of references points to, in its order.
Records(h, rows) == [i \in 1..Len(h.arrs[rows]) |-> h.recs[h.arrs[rows][i]]]

\* The table behind a handle.
Deref(h, t) ==
  Table(h.arrs[t.headers], Records(h, t.rows), t.fileName, t.hasTimeAxis)

\* The heap with the table t allocated: each row is a record of its own.
Store(h, t) ==
  [arrs |-> h.arrs \o <<t.headers,
                         [i \in 1..Len(t.rows) |-> Len(h.recs) + i]>>,
   recs |-> h.recs \o t.rows]

\* The handle Store(h, t) gives the table.
Stored(h, t) ==
  Handle(Len(h.arrs) + 1, Len(h.arrs) + 2, t.fileName, t.hasTimeAxis)

\* Nothing is parsed yet: op = "none", and the tables are placeholders.
Init ==
  /\ data = EmptyTable
  /\ file = NoFile
  /\ parsed = EmptyTable
  /\ existing = EmptyTable
  /\ op = "none"
  /\ merges = 0
  /\ hasData = FALSE
  /\ config = InitConfig
  /\ error = "none"
  /\ loading = FALSE
  /\ inflight = {}
  /\ saved = NoSaved
  /\ project = NoProject
  /\ filtered = <<>>
  /\ chart = <<>>
  /\ ingested = <<>>
  /\ heap = EmptyHeap
  /\ snap = EmptyHeap
  /\ args = [existing |-> NoHandle, incoming |-> NoHandle]
  /\ result = NoHandle
  /\ fop = "none"

\* data = await parseFile(f)
ParseFile(f) ==
  /\ op = "none"
  /\ file' = f
  /\ parsed' = parseFile(f)
  /\ data' = parsed'
  /\ op' = "parse"
  /\ UNCHANGED <<existing, merges, appVars, frameVars>>

\* data = mergeDatasets(data, await parseFile(f))
Merge(f) ==
  /\ op # "none"
  /\ merges < MaxMerges
  /\ file' = f
  /\ parsed' = parseFile(f)
  /\ existing' = data
  /\ data' = mergeDatasets(data, parsed')
  /\ op' = "merge"
  /\ merges' = merges + 1
  /\ UNCHANGED <<appVars, frameVars>>

\* The same with the earlier mergeDatasets, which throws when the two
\* tables share no header and then leaves the stored table alone.
MergeStrict(f) ==
  /\ op # "none"
  /\ merges < MaxMerges
  /\ file' = f
  /\ parsed' = parseFile(f)
  /\ existing' = data
  /\ IF Len(strictOverlap(data, parsed')) = 0
     THEN data' = data /\ op' = "mergeError"
     ELSE data' = mergeDatasetsStrict(data, parsed') /\ op' = "mergeStrict"
  /\ merges' = merges + 1
  /\ UNCHANGED <<appVars, frameVars>>

\* The render that follows a change of state computes both memos anew; a
\* render that throws computes none.
Render ==
  /\ filtered' = IF config' = UndefinedConfig THEN <<>>
                 ELSE filteredRows(hasData', data', config')
  /\ chart' = IF hasData' /\ config' # UndefinedConfig
              THEN chartData(data', config') ELSE <<>>

\* A handler that waits for the text of its file; seen and seenXAxisKey
\* are what its closure holds as data and as config.xAxisKey.
Pending(kind, f, p, seen, seenXAxisKey) ==
  [kind |-> kind, file |-> f, project |-> p, seen |-> seen,
   seenXAxisKey |-> seenXAxisKey]

\* The number of handlers that wait at a time.
MaxInflight == 1

\* xKey of handleInitialUpload.
xKeyOf(headers) ==
  LET found == FirstWithKeyword(headers, {Ktime, Kdatum, Kdate, Kzeit})
  IN  IF found # <<>> THEN found ELSE headers[1]

\* parsed.rows.find(r => r[h] !== undefined && r[h] !== null)?.[h]
firstVal(rows, h) ==
  LET defined == {i \in 1..Len(rows) : Get(rows[i], h) \notin {Undef, Null}}
  IN  IF defined = {} THEN Undef
      ELSE Get(rows[CHOOSE i \in defined : \A j \in defined : i <= j], h)

\* potentialLines of handleInitialUpload.
potentialLines(table, xKey) ==
  LET numeric == SelectSeq(table.headers,
                   LAMBDA h : h # xKey /\ IsNumber(firstVal(table.rows, h)))
  IN  SubSeq(numeric, 1, IF Len(numeric) < 5 THEN Len(numeric) ELSE 5)

\* handleInitialUpload up to await parseFile(file); the uploader is shown
\* while data is null.
UploadStart(f) ==
  /\ Mounted
  /\ ~hasData
  /\ Cardinality(inflight) < MaxInflight
  /\ loading' = TRUE
  /\ error' = "none"
  /\ inflight' = inflight \cup {Pending("upload", f, NoProject, EmptyTable, <<>>)}
  /\ UNCHANGED <<data, file, parsed, existing, op, merges, hasData, config,
                 saved, project>>
  /\ Render
  /\ UNCHANGED <<ingested, frameVars>>

\* handleInitialUpload from the return of parseFile on.
UploadDone(p) ==
  /\ p.kind = "upload"
  /\ inflight' = inflight \ {p}
  /\ file' = p.file
  /\ parsed' = parseFile(p.file)
  /\ op' = "parse"
  /\ loading' = FALSE
  /\ IF Len(parsed'.headers) = 0 \/ Len(parsed'.rows) = 0
     THEN /\ error' = "empty"
          /\ UNCHANGED <<data, hasData, config, ingested>>
     ELSE /\ data' = parsed'
          /\ ingested' = parsed'.rows
          /\ hasData' = TRUE
          /\ config' = [config EXCEPT
                          !.xAxisKey = xKeyOf(parsed'.headers),
                          !.activeLines =
                             potentialLines(parsed', xKeyOf(parsed'.headers))]
          /\ UNCHANGED error
  /\ UNCHANGED <<existing, merges, saved, project>>
  /\ Render
  /\ UNCHANGED frameVars

\* The handlers of ControlPanel call onConfigChange = setConfig; the panel is
\* shown for a table with a time axis.
SetConfig(newConfig) ==
  /\ Mounted
  /\ hasData
  /\ data.hasTimeAxis
  /\ config' = newConfig
  /\ op' = "config"
  /\ UNCHANGED <<data, file, parsed, existing, merges, hasData, error,
                 loading, inflight, saved, project>>
  /\ Render
  /\ UNCHANGED <<ingested, frameVars>>

\* handleXAxisChange
SetXAxis(h) == SetConfig([config EXCEPT !.xAxisKey = h])

\* handleLineToggle
ToggleLine(header) ==
  /\ Mounted
  /\ header # config.xAxisKey
  /\ SetConfig([config EXCEPT !.activeLines =
       IF header \in Range(@) THEN SelectSeq(@, LAMBDA l : l # header)
       ELSE Append(@, header)])

\* The slider of the smoothing window.
SetSmoothing(w) == SetConfig([config EXCEPT !.smoothing = w])

\* The check box of the grid.
SetShowGrid(b) == SetConfig([config EXCEPT !.showGrid = b])

\* The slider of the stroke width.
SetStrokeWidth(v) == SetConfig([config EXCEPT !.strokeWidth = v])

\* handleSaveProject
SaveProject ==
  /\ Mounted
  /\ hasData
  /\ saved' = [project |-> StringifyProject(data, config),
               data |-> data, config |-> config]
  /\ op' = "save"
  /\ UNCHANGED <<data, file, parsed, existing, merges, hasData, config, error,
                 loading, inflight, project>>
  /\ Render
  /\ UNCHANGED <<ingested, frameVars>>

\* handleLoadProject up to await file.text(); its button is shown while
\* data is null.
LoadStart(p) ==
  /\ Mounted
  /\ ~hasData
  /\ Cardinality(inflight) < MaxInflight
  /\ loading' = TRUE
  /\ inflight' = inflight \cup {Pending("load", NoFile, p, EmptyTable, <<>>)}
  /\ UNCHANGED <<data, file, parsed, existing, op, merges, hasData, config,
                 error, saved, project>>
  /\ Render
  /\ UNCHANGED <<ingested, frameVars>>

\* handleLoadProject does not throw: the text parses, the type is that of
\* a project and project.data is there.  project.config is not looked at.
Installs(p) ==
  p.project.parses /\ p.project.type = ProjectType /\ p.project.hasData

\* handleLoadProject from the return of file.text() on.  When it installs
\* an undefined config the component is removed, and what the handlers
\* that still wait set afterwards has no effect.
LoadDone(p) ==
  /\ p.kind = "load"
  /\ inflight' = IF Installs(p) /\ p.project.config = UndefinedConfig
                 THEN {} ELSE inflight \ {p}
  /\ project' = p.project
  /\ loading' = FALSE
  /\ IF ~Installs(p)
     THEN /\ error' = "project"
          /\ op' = "loadError"
          /\ UNCHANGED <<data, hasData, config, ingested>>
     ELSE /\ data' = p.project.data
          /\ ingested' = p.project.data.rows
          /\ hasData' = TRUE
          /\ config' = p.project.config
          /\ error' = "none"
          /\ op' = "load"
  /\ UNCHANGED <<file, parsed, existing, merges, saved>>
  /\ Render
  /\ UNCHANGED frameVars

\* The type the earlier handleSaveProject writes and the earlier
\* handleLoadProject asks for.
EarlierType ==
  <<"c", "s", "v", "-", "v", "i", "s", "u", "a", "l", "i", "z", "e", "r",
    "-", "p", "r", "o", "j", "e", "c", "t">>

\* The earlier handleLoadProject from the return of file.text() on: it
\* also throws for a project without config.
LoadDoneEarlier(p) ==
  /\ p.kind = "load"
  /\ inflight' = inflight \ {p}
  /\ project' = p.project
  /\ loading' = FALSE
  /\ IF ~p.project.parses \/ p.project.type # EarlierType
        \/ ~p.project.hasData \/ p.project.config = UndefinedConfig
     THEN /\ error' = "project"
          /\ op' = "loadError"
          /\ UNCHANGED <<data, hasData, config, ingested>>
     ELSE /\ data' = p.project.data
          /\ ingested' = p.project.data.rows
          /\ hasData' = TRUE
          /\ config' = p.project.config
          /\ error' = "none"
          /\ op' = "load"
  /\ UNCHANGED <<file, parsed, existing, merges, saved>>
  /\ Render
  /\ UNCHANGED frameVars

\* handleReset, confirmed.
Reset ==
  /\ Mounted
  /\ hasData
  /\ data.hasTimeAxis
  /\ data' = EmptyTable
  /\ ingested' = <<>>
  /\ hasData' = FALSE
  /\ config' = InitConfig
  /\ error' = "none"
  /\ op' = "reset"
  /\ UNCHANGED <<file, parsed, existing, merges, loading, inflight, saved,
                 project>>
  /\ Render
  /\ UNCHANGED frameVars

\* The number of append handlers that wait at a time.
MaxAppends == 2

\* handleAppendUpload up to await parseFile(file); the Merge button is shown
\* while data is not null, whether or not another handler waits.  The
\* closure keeps the table that is stored when the handler starts.
AppendStart(f) ==
  /\ Mounted
  /\ hasData
  /\ merges < MaxMerges
  /\ Cardinality({p \in inflight : p.kind = "append"}) < MaxAppends
  /\ Pending("append", f, NoProject, data, config.xAxisKey) \notin inflight
  /\ loading' = TRUE
  /\ inflight' = inflight \cup {Pending("append", f, NoProject, data, config.xAxisKey)}
  /\ merges' = merges + 1
  /\ UNCHANGED <<data, file, parsed, existing, op, hasData, config, error,
                 saved, project>>
  /\ Render
  /\ UNCHANGED <<ingested, frameVars>>

\* handleAppendUpload from the return of parseFile on.
AppendDone(p) ==
  /\ p.kind = "append"
  /\ inflight' = inflight \ {p}
  /\ file' = p.file
  /\ parsed' = parseFile(p.file)
  /\ existing' = p.seen
  /\ data' = mergeDatasets(p.seen, parsed')
  /\ ingested' = ingested \o parsed'.rows
  /\ hasData' = TRUE
  /\ op' = "append"
  /\ loading' = FALSE
  /\ UNCHANGED <<merges, config, error, saved, project>>
  /\ Render
  /\ UNCHANGED frameVars

\* handleAppendUpload when parseFile rejects: the file cannot be read.
AppendFail(p) ==
  /\ p.kind = "append"
  /\ inflight' = inflight \ {p}
  /\ file' = p.file
  /\ existing' = p.seen
  /\ error' = "read"
  /\ op' = "appendError"
  /\ loading' = FALSE
  /\ UNCHANGED <<data, parsed, merges, hasData, config, saved, project>>
  /\ Render
  /\ UNCHANGED <<ingested, frameVars>>

\* valA - valB of two numbers as sort reads it: NaN counts as 0.
NumberCompare(a, b) ==
  IF a.k = "nan" \/ b.k = "nan" THEN 0
  ELSE TimeCompare(parseDateToTimestamp(a), parseDateToTimestamp(b))

\* The comparator of the earlier handleAppendUpload.  localeCompare is read
\* as the order of the code units, with which it agrees on the digits and
\* separators of the modelled axis cells.
AxisCompare(a, b, xKey) ==
  LET valA == Get(a, xKey)
      valB == Get(b, xKey)
  IN  IF IsNumber(valA) /\ IsNumber(valB) THEN NumberCompare(valA, valB)
      ELSE IF IsString(valA) /\ IsString(valB)
      THEN StringCompare(valA.s, valB.s)
      ELSE 0

\* One step of the stable sort with that comparator.
InsertByAxis(sorted, x, xKey) ==
  LET later == {i \in 1..Len(sorted) : AxisCompare(sorted[i], x, xKey) > 0}
      p == IF later = {} THEN Len(sorted) + 1
           ELSE CHOOSE i \in later : \A j \in later : i <= j
  IN  SubSeq(sorted, 1, p - 1) \o <<x>> \o Drop(sorted, p)

RECURSIVE SortByAxis(_, _, _, _)
SortByAxis(rows, i, acc, xKey) ==
  IF i > Len(rows) THEN acc
  ELSE SortByAxis(rows, i + 1, InsertByAxis(acc, rows[i], xKey), xKey)

\* sortedRows of the earlier handleAppendUpload.
sortedRows(merged, xKey) ==
  IF xKey # <<>> THEN SortByAxis(merged.rows, 1, <<>>, xKey) ELSE merged.rows

\* The earlier handleAppendUpload from the return of parseFile on: the
\* earlier mergeDatasets throws for tables without a common header.  Of its
\* two setData calls the second decides the table that is stored.
AppendDoneEarlier(p) ==
  /\ p.kind = "append"
  /\ inflight' = inflight \ {p}
  /\ file' = p.file
  /\ parsed' = parseFile(p.file)
  /\ existing' = p.seen
  /\ loading' = FALSE
  /\ IF Len(strictOverlap(p.seen, parsed')) = 0
     THEN /\ error' = "merge"
          /\ op' = "appendError"
          /\ UNCHANGED <<data, hasData, ingested>>
     ELSE /\ data' = [mergeDatasetsStrict(p.seen, parsed') EXCEPT !.rows =
                        sortedRows(mergeDatasetsStrict(p.seen, parsed'),
                                   p.seenXAxisKey)]
          /\ hasData' = TRUE
          /\ ingested' = ingested \o parsed'.rows
          /\ op' = "append"
          /\ UNCHANGED error
  /\ UNCHANGED <<merges, config, saved, project>>
  /\ Render
  /\ UNCHANGED frameVars

\* Two files are parsed and their tables allocated: existing and incoming.
FrameAlloc(f, g) ==
  /\ fop = "none"
  /\ heap' = Store(Store(EmptyHeap, parseFile(f)), parseFile(g))
  /\ snap' = heap'
  /\ args' = [existing |-> Stored(EmptyHeap, parseFile(f)),
              incoming |-> Stored(Store(EmptyHeap, parseFile(f)), parseFile(g))]
  /\ result' = NoHandle
  /\ fop' = "alloc"
  /\ UNCHANGED <<data, file, parsed, existing, op, merges, appVars>>

\* newRows that is the array existing.rows itself, which the merge extends.
newRowsArray_Alias(existingRows, fresh) == existingRows

\* [...existing.rows, ...incoming.rows] is a new array.
newRowsArray(existingRows, fresh) == fresh

\* mergeDatasets by reference: newHeaders and newRows are allocated, and
\* newRows.sort orders newRows in place.
FrameMerge ==
  /\ fop = "alloc"
  /\ LET e == args.existing
         i == args.incoming
         timeHeader == mergeTimeHeader(heap.arrs[e.headers])
         newRows == newRowsArray(e.rows, Len(heap.arrs) + 2)
         allocated ==
           heap.arrs \o
             <<Dedup(heap.arrs[e.headers] \o heap.arrs[i.headers]), <<>>>>
         spread == [allocated EXCEPT
                      ![newRows] = heap.arrs[e.rows] \o heap.arrs[i.rows]]
         times == [k \in 1..Len(spread[newRows]) |->
                     mergeTime(timeHeader, heap.recs[spread[newRows][k]])]
         sorted == IF timeHeader # <<>>
                   THEN [spread EXCEPT ![newRows] = StableSort(@, times)]
                   ELSE spread
     IN  /\ heap' = [heap EXCEPT !.arrs = sorted]
         /\ result' = Handle(Len(heap.arrs) + 1, newRows, e.fileName,
                             e.hasTimeAxis \/ i.hasTimeAxis)
  /\ snap' = heap
  /\ fop' = "merge"
  /\ UNCHANGED <<data, file, parsed, existing, op, merges, appVars, args>>

\* The earlier mergeDatasets by reference: the records of normalizedNewRows
\* and the array of rows are allocated, the headers are those of existing.
FrameMergeStrict ==
  /\ fop = "alloc"
  /\ LET e == args.existing
         i == args.incoming
         incomingRows == heap.arrs[i.rows]
         normalizedNewRows ==
           [k \in 1..Len(incomingRows) |->
              strictNormalize(Deref(heap, e), heap.recs[incomingRows[k]])]
     IN  IF Len(strictOverlap(Deref(heap, e), Deref(heap, i))) = 0
         THEN /\ heap' = heap
              /\ result' = NoHandle
              /\ fop' = "mergeError"
         ELSE /\ heap' =
                   [arrs |-> Append(heap.arrs,
                               heap.arrs[e.rows] \o
                                 [k \in 1..Len(incomingRows) |->
                                    Len(heap.recs) + k]),
                    recs |-> heap.recs \o normalizedNewRows]
              /\ result' = [e EXCEPT !.rows = Len(heap.arrs) + 1]
              /\ fop' = "mergeStrict"
  /\ snap' = heap
  /\ UNCHANGED <<data, file, parsed, existing, op, merges, appVars, args>>

\* filteredRows by reference, of the table existing: data.rows itself
\* without a bound, else the new array data.rows.filter returns.
FrameFilter(cfg) ==
  /\ fop = "alloc"
  /\ LET e == args.existing
     IN  IF cfg.filterStart = <<>> /\ cfg.filterEnd = <<>>
         THEN heap' = heap /\ result' = e
         ELSE /\ heap' = [heap EXCEPT !.arrs =
                   Append(@, SelectSeq(heap.arrs[e.rows],
                                LAMBDA r : passRow(heap.recs[r], cfg)))]
              /\ result' = [e EXCEPT !.rows = Len(heap.arrs) + 1]
  /\ snap' = heap
  /\ fop' = "filter"
  /\ UNCHANGED <<data, file, parsed, existing, op, merges, appVars, args>>

\* A copy that is the row itself.
rowCopy_Alias(row, fresh) == row

\* ({ ...row }) is a new record.
rowCopy(row, fresh) == fresh

\* config.activeLines.forEach by reference: the averages are read from the
\* records of rows, the values are written to the records of smoothedRows.
RECURSIVE smoothRecords(_, _, _, _, _)
smoothRecords(recs, rows, smoothedRows, lines, windowSize) ==
  IF lines = <<>> THEN recs
  ELSE LET key == Head(lines)
           averages ==
             calculateMovingAverage([k \in 1..Len(rows) |-> recs[rows[k]]],
                                    key, windowSize)
           written ==
             [r \in 1..Len(recs) |->
                IF \E k \in 1..Len(smoothedRows) : smoothedRows[k] = r
                THEN SetKey(recs[r], key,
                       RoundedQuotient(
                         averages[CHOOSE k \in 1..Len(smoothedRows) :
                                    smoothedRows[k] = r]))
                ELSE recs[r]]
       IN  smoothRecords(written, rows, smoothedRows, Tail(lines), windowSize)

\* chartData by reference, of the table existing: data.rows itself without
\* smoothing, else a new array of copied records, which are written to.
FrameSmooth(cfg) ==
  /\ fop = "alloc"
  /\ LET e == args.existing
         rows == heap.arrs[e.rows]
         smoothedRows == [k \in 1..Len(rows) |->
                            rowCopy(rows[k], Len(heap.recs) + k)]
         copied == heap.recs \o [k \in 1..Len(rows) |-> heap.recs[rows[k]]]
     IN  IF smoothingOff(cfg)
         THEN heap' = heap /\ result' = e
         ELSE /\ heap' = [arrs |-> Append(heap.arrs, smoothedRows),
                          recs |-> smoothRecords(copied, rows, smoothedRows,
                                     cfg.activeLines, cfg.smoothing)]
              /\ result' = [e EXCEPT !.rows = Len(heap.arrs) + 1]
  /\ snap' = heap
  /\ fop' = "smooth"
  /\ UNCHANGED <<data, file, parsed, existing, op, merges, appVars, args>>

ParseAny == \E f \in Files : ParseFile(f)

MergeAny == \E f \in AppendFiles : Merge(f)

MergeStrictAny == \E f \in AppendFiles : MergeStrict(f)

ParseInput == \E f \in ParseFiles : ParseFile(f)

ParseSort == \E f \in SortFiles : ParseFile(f)

MergeSort == \E f \in SortAppendFiles : Merge(f)

Next == ParseAny \/ MergeAny

Spec == Init /\ [][Next]_vars

NextStrict == ParseAny \/ MergeAny \/ MergeStrictAny

SpecStrict == Init /\ [][NextStrict]_vars

NextParse == ParseInput

SpecParse == Init /\ [][NextParse]_vars

NextSort == ParseSort \/ MergeSort

SpecSort == Init /\ [][NextSort]_vars

\* The project file of a table as handleInitialUpload configures it, with
\* the bounds start and end of the range filter.
FilterProject(table, start, end) ==
  StringifyProject(table,
    [InitConfig EXCEPT
       !.xAxisKey = xKeyOf(table.headers),
       !.activeLines = potentialLines(table, xKeyOf(table.headers)),
       !.filterStart = start,
       !.filterEnd = end])

FilterProjects ==
  {FilterProject(parseFile(f), start, end) :
     f \in {g \in FilterFiles : parseFile(g).rows # <<>>},
     start \in FilterBounds, end \in FilterBounds}

LoadFilter == \E p \in FilterProjects : LoadStart(p)

LoadFinish == \E p \in inflight : LoadDone(p)

ChooseXAxis == \E h \in Range(data.headers) : SetXAxis(h)

NextFilter == LoadFilter \/ LoadFinish \/ ChooseXAxis

SpecFilter == Init /\ [][NextFilter]_vars

UploadSmooth == \E f \in SmoothFiles : UploadStart(f)

UploadFinish == \E p \in inflight : UploadDone(p)

ToggleAny == \E h \in Range(data.headers) : ToggleLine(h)

SlideSmoothing == \E w \in 0..MaxSmoothing : SetSmoothing(w)

NextSmooth == UploadSmooth \/ UploadFinish \/ ToggleAny \/ SlideSmoothing

SpecSmooth == Init /\ [][NextSmooth]_vars

\* Project files that handleLoadProject rejects: a text that is no JSON, a
\* document of another type, a document without data.
OtherType == EarlierType

RejectedProjects ==
  {NoProject,
   ProjectFile(TRUE, OtherType, TRUE, EmptyTable, InitConfig),
   ProjectFile(TRUE, ProjectType, FALSE, EmptyTable, InitConfig)}

UploadProject == \E f \in ProjectFiles : UploadStart(f)

FlipGrid == SetShowGrid(~config.showGrid)

\* One project file is saved in a run.
SaveOnce == saved = NoSaved /\ SaveProject

LoadSaved == saved # NoSaved /\ LoadStart(saved.project)

LoadRejected == \E p \in RejectedProjects : LoadStart(p)

NextProject ==
  \/ UploadProject
  \/ UploadFinish
  \/ ToggleAny
  \/ FlipGrid
  \/ SaveOnce
  \/ Reset
  \/ LoadSaved
  \/ LoadRejected
  \/ LoadFinish

SpecProject == Init /\ [][NextProject]_vars

AllocAny == \E f \in FrameFiles : \E g \in FrameFiles : FrameAlloc(f, g)

FilterAny ==
  \E start \in FilterBounds : \E end \in FilterBounds :
    FrameFilter([InitConfig EXCEPT !.xAxisKey = hDatum,
                                   !.filterStart = start,
                                   !.filterEnd = end])

SmoothAny ==
  \E w \in 0..MaxSmoothing : \E lines \in {<<hA>>, <<hDatum, hA>>} :
    FrameSmooth([InitConfig EXCEPT !.xAxisKey = hDatum,
                                   !.activeLines = lines,
                                   !.smoothing = w])

NextFrame ==
  AllocAny \/ FrameMerge \/ FrameMergeStrict \/ FilterAny \/ SmoothAny

SpecFrame == Init /\ [][NextFrame]_vars

UploadBase == \E f \in BaseFiles : UploadStart(f)

AppendMore == \E f \in MoreFiles : AppendStart(f)

AppendFinish == \E p \in inflight : AppendDone(p)

AppendFails == \E p \in inflight : AppendFail(p)

AppendFinishEarlier == \E p \in inflight : AppendDoneEarlier(p)

NextAppend ==
  \/ UploadBase
  \/ UploadFinish
  \/ AppendMore
  \/ AppendFinish
  \/ AppendFails
  \/ AppendFinishEarlier
  \/ ChooseXAxis
  \/ ToggleAny

\* Uploads, appends that overlap in time, and the two selections of the
\* control panel.
SpecAppend == Init /\ [][NextAppend]_vars

\* Project files of the load specification: with the type of the current
\* and of the earlier handleSaveProject, with and without config, without
\* data, and a text that is no JSON.
LoadConfigs ==
  {Config(hDatum, <<hA>>, TRUE, <<>>, <<>>, 0, 2 * Scale), UndefinedConfig}

LoadProjects ==
  {ProjectFile(TRUE, type, hasProjectData,
               IF hasProjectData THEN JsonTable(parseFile(f)) ELSE EmptyTable,
               c) :
     type \in {ProjectType, EarlierType}, hasProjectData \in BOOLEAN,
     f \in BaseFiles, c \in LoadConfigs}
  \cup {NoProject}

LoadAny == \E p \in LoadProjects : LoadStart(p)

LoadFinishEarlier == \E p \in inflight : LoadDoneEarlier(p)

NextLoad ==
  \/ LoadAny
  \/ LoadFinish
  \/ LoadFinishEarlier
  \/ ChooseXAxis
  \/ ToggleAny
  \/ FlipGrid
  \/ Reset

\* Project files are loaded by the current and by the earlier
\* handleLoadProject; the control panel changes the configuration.
SpecLoad == Init /\ [][NextLoad]_vars

(***************************************************************************)
(* Properties                                                              *)
(***************************************************************************)
\* tA <= tB on timestamps, the two infinities included.
TsLeq(tA, tB) ==
  \/ tA[1] < tB[1]
  \/ /\ tA[1] = tB[1]
     /\ \/ tA[1] # 0
        \/ tA[2] < tB[2]
        \/ tA[2] = tB[2] /\ tA[3] <= tB[3]

\* The canonical timestamp of the cell of row under header.
TimeOf(row, header) == parseDateToTimestamp(Get(row, header))

Ascending(rows, header) ==
  \A i \in 1..Len(rows) : \A j \in (i + 1)..Len(rows) :
    TsLeq(TimeOf(rows[i], header), TimeOf(rows[j], header))

\* The rows processData pushed for the last file, before its sort.
PushedRows == CleanRows(fileHeaders(file), fileRawRows(file), 1)

\* C1: every table parseFile returns with hasTimeAxis = true has its rows
\* in ascending order of the canonical timestamp of the axis column.
C1_ParsedRowsAscending ==
  parsed.hasTimeAxis => Ascending(parsed.rows, processTimeHeader(parsed.headers))

\* A parse whose sort moved a row: two rows came in descending order.
C1_Witness ==
  /\ op = "parse"
  /\ parsed.hasTimeAxis
  /\ Len(parsed.rows) >= 2
  /\ parsed.rows # PushedRows
  /\ ~Ascending(PushedRows, processTimeHeader(parsed.headers))

\* C2: every table reached by one parseFile and any sequence of
\* mergeDatasets calls with hasTimeAxis = true has its rows in ascending
\* order of the canonical timestamp of its time-axis column.
C2_MergedRowsAscending ==
  data.hasTimeAxis => Ascending(data.rows, processTimeHeader(data.headers))

\* The rows of seq whose timestamp under header is t, in order.
RowsAt(seq, header, t) ==
  SelectSeq(seq, LAMBDA r : TimeOf(r, header) = t)

\* out holds the rows of inp, and rows with equal timestamps under header
\* come in the order they have in inp.
KeepsTies(inp, out, header) ==
  /\ Len(out) = Len(inp)
  /\ \A i \in 1..Len(inp) :
       RowsAt(out, header, TimeOf(inp[i], header))
         = RowsAt(inp, header, TimeOf(inp[i], header))

\* C3: the time sort of processData and of mergeDatasets is stable: rows
\* whose cells under the sorted column have equal canonical timestamps keep
\* the relative order of the input sequence.
C3_SortStable ==
  /\ (op = "parse" /\ ~tooShort(file))
       => KeepsTies(PushedRows, parsed.rows, processTimeHeader(parsed.headers))
  /\ op = "merge"
       => KeepsTies(existing.rows \o parsed.rows, data.rows,
                    mergeTimeHeader(existing.headers))

\* A merge whose sort moved rows while two different rows tied.
C3_Witness ==
  /\ op = "merge"
  /\ mergeTimeHeader(existing.headers) # <<>>
  /\ data.rows # existing.rows \o parsed.rows
  /\ \E i \in 1..Len(data.rows) : \E j \in (i + 1)..Len(data.rows) :
       /\ data.rows[i] # data.rows[j]
       /\ TimeOf(data.rows[i], mergeTimeHeader(existing.headers))
            = TimeOf(data.rows[j], mergeTimeHeader(existing.headers))

NoDuplicates(seq) ==
  \A i \in 1..Len(seq) : \A j \in 1..Len(seq) : seq[i] = seq[j] => i = j

\* C4: every table produced by parseFile or by mergeDatasets has a headers
\* list without duplicate entries.
C4_HeadersUnique == NoDuplicates(parsed.headers) /\ NoDuplicates(data.headers)

\* C5: no record produced by processData holds an empty-string cell: a raw
\* value that is empty after trimming and unquoting is absent as a key.
C5_NoEmptyCell ==
  \A i \in 1..Len(parsed.rows) : \A h \in DOMAIN parsed.rows[i] :
    parsed.rows[i][h] # Str(<<>>)

\* The date patterns: YYYY-MM-DD with an optional time part after T or a
\* space, DD.MM.YYYY, YYYY/MM/DD.
DateShaped(v) ==
  \/ MatchIso(v) /\ (Len(v) = 10 \/ v[11] \in {"T", " "})
  \/ MatchDot(v) /\ Len(v) = 10
  \/ MatchSlashYMD(v)

\* C6: a string cell that, trimmed and unquoted, matches a date pattern is
\* stored by processData as text with those characters, never as a number.
C6_DateStaysText ==
  (op = "parse" /\ ~tooShort(file) /\ Len(fileRawRows(file)) = 1) =>
    \A j \in 1..Len(parsed.headers) :
      LET val == RawAt(fileRawRows(file)[1], parsed.headers[j], j)
      IN  (IsString(val) /\ DateShaped(StripQuotes(Trim(val.s)))) =>
            /\ Len(parsed.rows) = 1
            /\ Get(parsed.rows[1], parsed.headers[j])
                 = Str(StripQuotes(Trim(val.s)))

\* The cell 2024-01-02 of a parsed line is stored as the text 2024-01-02,
\* next to a cell that became a number.
C6_Witness ==
  /\ op = "parse"
  /\ Len(parsed.rows) = 1
  /\ Get(parsed.rows[1], <<"a">>) = Str(d20240102)
  /\ Get(parsed.rows[1], <<"b">>).k = "num"

\* C7: every numeric cell stored by processData is a finite number.
C7_NumericFinite ==
  \A i \in 1..Len(parsed.rows) : \A h \in DOMAIN parsed.rows[i] :
    IsNumber(parsed.rows[i][h]) => parsed.rows[i][h].k = "num"

Kindex == <<"i", "n", "d", "e", "x">>

HasKeyword(headers, keywords) ==
  \E i \in 1..Len(headers) : \E k \in keywords :
    Includes(ToLowerCase(headers[i]), k)

\* C8 as stated: hasTimeAxis is true exactly when a header, lower-cased,
\* contains one of datum, date, zeit, time, timestamp, created, index.
C8_SevenKeywords ==
  parsed.hasTimeAxis <=>
    HasKeyword(parsed.headers,
               {Kdatum, Kdate, Kzeit, Ktime, Ktimestamp, Kcreated, Kindex})

\* C8 as amended: hasTimeAxis is true exactly when a header, lower-cased,
\* contains one of datum, date, zeit, time, timestamp, created.
C8_SixKeywords ==
  parsed.hasTimeAxis <=>
    HasKeyword(parsed.headers,
               {Kdatum, Kdate, Kzeit, Ktime, Ktimestamp, Kcreated})

\* A parse of the headers Value, Created_At: the second header has the
\* keyword, in capitals, the first has none.
C8_Witness ==
  /\ op = "parse"
  /\ Len(parsed.headers) = 2
  /\ ~HasKeyword(<<parsed.headers[1]>>, {Kdatum, Kdate, Kzeit, Ktime, Kcreated})
  /\ HasKeyword(<<parsed.headers[2]>>, {Kcreated})
  /\ parsed.headers[2] # ToLowerCase(parsed.headers[2])
  /\ parsed.hasTimeAxis

\* The incoming headers that existing lacks, in order of first appearance.
NewHeaders(existingHeaders, incomingHeaders) ==
  Dedup(SelectSeq(incomingHeaders, LAMBDA h : h \notin Range(existingHeaders)))

\* C9: the headers of mergeDatasets(existing, incoming) are the existing
\* headers in their order, followed by the incoming headers that existing
\* lacks, in order of first appearance.
C9_MergedHeaders ==
  op = "merge" =>
    data.headers = existing.headers \o NewHeaders(existing.headers, parsed.headers)

Count(seq, x) == Cardinality({i \in 1..Len(seq) : seq[i] = x})

\* a and b hold the same records, each as often.
SameRecords(a, b) ==
  /\ Len(a) = Len(b)
  /\ \A x \in Range(a) \cup Range(b) : Count(a, x) = Count(b, x)

\* row without the keys that are not in headers.
Restrict(row, headers) ==
  [h \in (DOMAIN row) \cap Range(headers) |-> row[h]]

\* C10 as stated: the rows of a merge are the existing rows plus the
\* incoming rows, every record with the keys and values it had; without a
\* re-sort, the existing rows come first, then the incoming rows.
C10_MergeKeepsRecords ==
  /\ op = "merge" =>
       /\ SameRecords(data.rows, existing.rows \o parsed.rows)
       /\ mergeTimeHeader(existing.headers) = <<>>
            => data.rows = existing.rows \o parsed.rows
  /\ op = "mergeStrict" => data.rows = existing.rows \o parsed.rows

\* C10 as amended: the union mergeDatasets does so; the earlier strict
\* mergeDatasets returns the existing rows followed by one record for each
\* incoming row, which keeps the keys of the row that are existing headers,
\* with their values, and drops the others.
C10_MergeRows ==
  /\ op = "merge" =>
       /\ SameRecords(data.rows, existing.rows \o parsed.rows)
       /\ mergeTimeHeader(existing.headers) = <<>>
            => data.rows = existing.rows \o parsed.rows
  /\ op = "mergeStrict" =>
       data.rows = existing.rows \o
         [i \in 1..Len(parsed.rows) |-> Restrict(parsed.rows[i], existing.headers)]

\* A strict merge of a row that holds a key outside the existing headers.
C10_Witness ==
  /\ op = "mergeStrict"
  /\ Len(existing.rows) >= 1
  /\ \E i \in 1..Len(parsed.rows) :
       ~((DOMAIN parsed.rows[i]) \subseteq Range(existing.headers))

\* C11: merging the empty table into a table A that parseFile produced
\* returns A: the same headers, the same rows in the same order, the same
\* fileName and the same hasTimeAxis.
C11_MergeEmptyIdentity ==
  (op = "merge" /\ merges = 1 /\ parsed = EmptyTable) =>
    /\ data.headers = existing.headers
    /\ data.rows = existing.rows
    /\ data.fileName = existing.fileName
    /\ data.hasTimeAxis = existing.hasTimeAxis

\* C12: a merge raises an error exactly when it is the strict mergeDatasets
\* and the two tables share no header; the union mergeDatasets of two
\* tables that share no header succeeds, with the existing headers followed
\* by the incoming headers.
C12_ErrorOnlyStrictDisjoint ==
  LET disjoint == Range(existing.headers) \cap Range(parsed.headers) = {}
  IN  /\ op \in {"mergeStrict", "mergeError"} => (op = "mergeError" <=> disjoint)
      /\ (op = "merge" /\ disjoint) =>
           data.headers = existing.headers \o parsed.headers

\* C18: in every table that parseFile and any sequence of merges produce,
\* every key of every record is a member of the headers of the table.
C18_KeysAreHeaders ==
  /\ \A i \in 1..Len(parsed.rows) :
       (DOMAIN parsed.rows[i]) \subseteq Range(parsed.headers)
  /\ \A i \in 1..Len(data.rows) :
       (DOMAIN data.rows[i]) \subseteq Range(data.headers)

\* A merge that brought a record with a key from outside the headers of
\* the existing table, which holds a record too.
C18_Witness ==
  /\ op = "merge"
  /\ Len(existing.rows) >= 1
  /\ \E i \in 1..Len(data.rows) :
       ~((DOMAIN data.rows[i]) \subseteq Range(existing.headers))

\* The number of lines of a delimited text without its leading and trailing
\* white space, or of rows of a sheet.
ResolvedLines(f) ==
  IF isExcel(f) THEN Len(f.grid)
  ELSE Count(Trim(f.text), "\n") + 1

\* C19: parseFile of an input of fewer than two lines or rows returns the
\* empty table, headers = [] and rows = [], and does not throw.
C19_ShortInputEmpty ==
  (op = "parse" /\ ResolvedLines(file) < 2) =>
    parsed.headers = <<>> /\ parsed.rows = <<>>

\* A parse of a header line that no data line follows.
C19_Witness ==
  /\ op = "parse"
  /\ ~isExcel(file)
  /\ Trim(file.text) # <<>>
  /\ ResolvedLines(file) = 1
  /\ parsed = EmptyTable

\* Year, month and day of a text that starts with YYYY-MM-DD.
CalendarDay(s) ==
  <<ParseInt(SubSeq(s, 1, 4)), ParseInt(SubSeq(s, 6, 7)),
    ParseInt(SubSeq(s, 9, 10))>>

\* The day a is not after the day b.
DayLeq(a, b) ==
  \/ a[1] < b[1]
  \/ a[1] = b[1] /\ a[2] < b[2]
  \/ a[1] = b[1] /\ a[2] = b[2] /\ a[3] <= b[3]

\* C13: the bounds of the range filter are inclusive by date: a row whose
\* axis cell is a text of the shape YYYY-MM-DD, with or without a time part
\* after it, is retained exactly when its day is not before a non-empty
\* start and not after a non-empty end.
C13_FilterInclusiveByDate ==
  hasData =>
    \A i \in 1..Len(data.rows) :
      LET c == Get(data.rows[i], config.xAxisKey)
      IN  (IsString(c) /\ MatchIso(c.s)) =>
            (data.rows[i] \in Range(filtered) <=>
               /\ config.filterStart = <<>>
                    \/ DayLeq(CalendarDay(config.filterStart), CalendarDay(c.s))
               /\ config.filterEnd = <<>>
                    \/ DayLeq(CalendarDay(c.s), CalendarDay(config.filterEnd)))

\* C14: the range filter passes every row whose axis cell is not a text of
\* a date shape: a number, an absent cell or any other text is retained for
\* every start and end.
C14_FilterPassThrough ==
  hasData =>
    \A i \in 1..Len(data.rows) :
      LET c == Get(data.rows[i], config.xAxisKey)
      IN  ~(IsString(c) /\ DateShaped(c.s)) => data.rows[i] \in Range(filtered)

\* C15: with a smoothing window of 0 or 1 the smoothed view is the input
\* rows: as many rows, in their order, every value and every absence as it
\* was.
C15_SmoothingOffIdentity ==
  (hasData /\ config.smoothing <= 1) => chart = data.rows

\* The window 1 over two or more rows with a selected column that has an
\* absent or a text cell.
C15_Witness ==
  /\ hasData
  /\ op = "config"
  /\ config.smoothing = 1
  /\ Len(data.rows) >= 2
  /\ \E key \in Range(config.activeLines) : \E i \in 1..Len(data.rows) :
       ~IsNumber(Get(data.rows[i], key))
  /\ chart = data.rows

\* The sum of the numbers under key in rows[lo..hi], rows from 1; a cell
\* that is no number adds nothing.
RECURSIVE WindowSum(_, _, _, _)
WindowSum(rows, key, lo, hi) ==
  IF lo > hi THEN Num(0)
  ELSE LET c == Get(rows[lo], key)
           rest == WindowSum(rows, key, lo + 1, hi)
       IN  IF IsNumber(c) THEN JsAdd(c, rest) ELSE rest

\* The quotients a.sum / a.len and b.sum / b.len are the same number.
SameQuotient(a, b) ==
  /\ a.sum.k = b.sum.k
  /\ a.sum.k = "inf" => a.sum.v = b.sum.v
  /\ a.sum.k = "num" => a.sum.v * b.len = b.sum.v * a.len

\* The mean C16 states for row i (from 1) and the window w: the sum over the
\* rows max(1, i - w + 1)..i, divided by i for the first w - 1 rows and by w
\* for the others.
StatedMean(rows, key, i, w) ==
  [sum |-> WindowSum(rows, key, IF i - w + 1 > 1 THEN i - w + 1 ELSE 1, i),
   len |-> IF i < w THEN i ELSE w]

\* C16: with a window w > 1 the smoothed value of every selected column in
\* every row i is, before it is rounded to two decimals, the sum of the
\* column over the rows max(0, i - w + 1)..i, a cell that is no number
\* counting 0, divided by the number of rows in the window; no later row
\* contributes.
C16_MovingAverage ==
  (hasData /\ config.smoothing > 1) =>
    /\ Len(chart) = Len(data.rows)
    /\ \A key \in Range(config.activeLines) : \A i \in 1..Len(data.rows) :
         LET stated == StatedMean(data.rows, key, i, config.smoothing)
         IN  /\ SameQuotient(
                  calculateMovingAverage(data.rows, key, config.smoothing)[i],
                  stated)
             /\ Get(chart[i], key) = RoundedQuotient(stated)

\* The window 2 over three rows with a selected column that has a number
\* and a cell that is no number: the first row has a window of one row, the
\* third a window of two.
C16_Witness ==
  /\ hasData
  /\ op = "config"
  /\ config.smoothing = 2
  /\ Len(data.rows) = 3
  /\ \E key \in Range(config.activeLines) :
       /\ ~IsNumber(Get(data.rows[2], key))
       /\ Get(data.rows[3], key).k = "num"
       /\ Get(data.rows[3], key).v # 0
       /\ Get(chart[3], key) # Get(data.rows[3], key)

\* C20: handleLoadProject of the file that handleSaveProject wrote installs
\* the table and the configuration that were saved: headers, rows with
\* their keys, cell values and order, fileName, hasTimeAxis and every field
\* of the configuration.
C20_ProjectRoundTrip ==
  (op = "load" /\ saved # NoSaved /\ project = saved.project) =>
    data = saved.data /\ config = saved.config

\* Every array and every record that was allocated before the last
\* operation on the heap is as it was.
InputsUntouched ==
  /\ \A a \in 1..Len(snap.arrs) : heap.arrs[a] = snap.arrs[a]
  /\ \A r \in 1..Len(snap.recs) : heap.recs[r] = snap.recs[r]

\* C17: merge, range filter and smoothing do not modify their inputs: after
\* each of them the headers lists, the rows arrays (length and order) and
\* every record (keys and values) of the tables they were given are as
\* before.
C17_InputsUnmodified ==
  fop \in {"merge", "mergeStrict", "mergeError", "filter", "smooth"}
    => InputsUntouched

\* A smoothing that wrote, to the copy of a row, a value the row does not
\* hold.
C17_Witness ==
  /\ fop = "smooth"
  /\ result.rows # args.existing.rows
  /\ \E k \in 1..Len(heap.arrs[result.rows]) :
       heap.recs[heap.arrs[result.rows][k]]
         # heap.recs[heap.arrs[args.existing.rows][k]]

\* The table an operation on the heap returned is the table the operation
\* on values returns.
FrameAgrees ==
  LET e == Deref(snap, args.existing)
      i == Deref(snap, args.incoming)
  IN  /\ fop = "merge" => Deref(heap, result) = mergeDatasets(e, i)
      /\ fop = "mergeStrict" => Deref(heap, result) = mergeDatasetsStrict(e, i)
      /\ fop = "filter" =>
           \E start \in FilterBounds : \E end \in FilterBounds :
             Records(heap, result.rows) =
               filteredRows(TRUE, e, [InitConfig EXCEPT !.xAxisKey = hDatum,
                                        !.filterStart = start,
                                        !.filterEnd = end])
      /\ fop = "smooth" =>
           \E w \in 0..MaxSmoothing : \E lines \in {<<hA>>, <<hDatum, hA>>} :
             Records(heap, result.rows) =
               chartData(e, [InitConfig EXCEPT !.activeLines = lines,
                                               !.smoothing = w])
\* The handlers that ingest a file and have not returned from parseFile.
Ingesting == {p \in inflight : p.kind \in {"upload", "append"}}

\* C21: at every moment at most one upload or append is between the start of
\* its parseFile and its setData; a second append does not start while a
\* first one waits for its file.
C21_OneIngestionAtATime == Cardinality(Ingesting) <= 1
\* C22: an append whose parseFile or mergeDatasets fails leaves the stored
\* table exactly as it was when the append started and records an error.
C22_FailedAppendLeavesTable ==
  op = "appendError" => (hasData /\ data = existing /\ error # "none")

\* The failing handler itself does not assign the stored table.
FailedAppendAssignsNothing ==
  [][op' = "appendError" => (data' = data /\ hasData' = hasData)]_vars
\* The rows ascend by the timestamps mergeDatasets compares.
AscendingMerge(rows, header) ==
  \A i \in 1..Len(rows) : \A j \in (i + 1)..Len(rows) :
    TsLeq(mergeTime(header, rows[i]), mergeTime(header, rows[j]))

\* The sort of processData applied to rows.
processSorted(rows, header) ==
  StableSort(rows, [i \in 1..Len(rows) |-> processTime(header, rows[i])])

\* C23: the time sort of processData, and that of mergeDatasets with an
\* empty incoming table, return rows that already ascend by the time axis
\* in exactly the same order.
C23_SortIdempotent ==
  LET hp == processTimeHeader(data.headers)
      hm == mergeTimeHeader(data.headers)
  IN  /\ (hp # <<>> /\ Ascending(data.rows, hp))
           => processSorted(data.rows, hp) = data.rows
      /\ (hm # <<>> /\ AscendingMerge(data.rows, hm))
           => mergeDatasets(data, EmptyTable).rows = data.rows

\* A merged table of three or more rows that ascend, two of them different
\* rows of one timestamp and two of them of different timestamps.
C23_Witness ==
  /\ op = "merge"
  /\ Len(data.rows) >= 3
  /\ mergeTimeHeader(data.headers) = hDatum
  /\ AscendingMerge(data.rows, hDatum)
  /\ Ascending(data.rows, hDatum)
  /\ \E i, j \in 1..Len(data.rows) :
       /\ i < j
       /\ data.rows[i] # data.rows[j]
       /\ TimeCompare(TimeOf(data.rows[i], hDatum),
                      TimeOf(data.rows[j], hDatum)) = 0
  /\ \E i, j \in 1..Len(data.rows) :
       TimeCompare(TimeOf(data.rows[i], hDatum),
                   TimeOf(data.rows[j], hDatum)) < 0
hCreatedAt == <<"C", "r", "e", "a", "t", "e", "d", "_", "A", "t">>

hValue == <<"V", "a", "l", "u", "e">>

\* The positions of the headers that, lower-cased, contain a keyword of
\* processData.
KeywordPositions(headers) ==
  {i \in 1..Len(headers) : HasKeyword(<<headers[i]>>, processKeywords)}

\* C24: when several headers contain a time keyword, the rows are sorted by
\* the first such header in header order, whichever keyword it holds and in
\* whatever case; for the headers Value, Created_At in either order the
\* axis is Created_At.
C24_FirstKeywordHeaderIsAxis ==
  LET at == KeywordPositions(parsed.headers)
  IN  /\ at # {} =>
           /\ parsed.hasTimeAxis
           /\ Ascending(parsed.rows,
                parsed.headers[CHOOSE i \in at : \A j \in at : i <= j])
      /\ Range(parsed.headers) = {hValue, hCreatedAt} =>
           Ascending(parsed.rows, hCreatedAt)

\* A parse of two headers with different keywords in different cases whose
\* rows ascend by the first header and descend by the second.
C24_Witness ==
  /\ op = "parse"
  /\ Len(parsed.headers) = 2
  /\ KeywordPositions(parsed.headers) = {1, 2}
  /\ HasKeyword(<<parsed.headers[1]>>, {Kcreated})
  /\ HasKeyword(<<parsed.headers[2]>>, {Kdate})
  /\ Len(parsed.rows) = 2
  /\ parsed.rows # PushedRows
  /\ Ascending(parsed.rows, parsed.headers[1])
  /\ ~Ascending(parsed.rows, parsed.headers[2])
\* The data lines of a delimited file that is not too short.
DataLines(f) == Tail(SplitLines(Trim(f.text)))

\* The line has content other than white space, and a field under one of
\* the headers is not empty.
HoldsField(line, headers) ==
  /\ Trim(line) # <<>>
  /\ \E i \in 1..Len(headers) :
       i <= Len(SplitCsv(line)) /\ SplitCsv(line)[i] # <<>>

\* C25: a data line without content other than white space gives no row:
\* the table has as many rows as the file has data lines that hold a
\* non-empty field.
C25_BlankLinesGiveNoRow ==
  (op = "parse" /\ ~isExcel(file) /\ ~tooShort(file)) =>
    Len(parsed.rows) =
      Cardinality({i \in 1..Len(DataLines(file)) :
                     HoldsField(DataLines(file)[i], parsed.headers)})
\* The cell is a text that parseDateToTimestamp reads as a date.
ParsesToDate(c) ==
  /\ IsString(c)
  /\ \/ MatchIso(c.s) /\ Len(SplitOn(c.s, {"-", "T", " "})) >= 3
     \/ MatchDot(c.s)
     \/ DateFromString(c.s)[1]

\* The cell is absent or a text that is read as no date.
Unparsable(c) == c = Undef \/ (IsString(c) /\ ~ParsesToDate(c))

\* In rows, every row with an unparsable axis cell has the timestamp 0 and
\* stands before every row whose axis cell is a date.
UnparsableFirst(rows, header) ==
  \A i \in 1..Len(rows) :
    Unparsable(Get(rows[i], header)) =>
      /\ TimeOf(rows[i], header) = DayStamp(0)
      /\ \A j \in 1..Len(rows) :
           ParsesToDate(Get(rows[j], header)) => i < j

\* C26: a row whose axis cell cannot be parsed as a date gets the timestamp
\* 0 and stands, after the sort of processData and of mergeDatasets, before
\* every row whose axis cell parses to a date.
C26_UnparsableRowsFirst ==
  /\ parsed.hasTimeAxis =>
       UnparsableFirst(parsed.rows, processTimeHeader(parsed.headers))
  /\ (op = "merge" /\ data.hasTimeAxis) =>
       UnparsableFirst(data.rows, processTimeHeader(data.headers))

\* The same for dates after 1 January 1970 only.
UnparsableBeforeLaterDates ==
  parsed.hasTimeAxis =>
    LET header == processTimeHeader(parsed.headers)
    IN  \A i, j \in 1..Len(parsed.rows) :
          (/\ Unparsable(Get(parsed.rows[i], header))
           /\ ParsesToDate(Get(parsed.rows[j], header))
           /\ TimeCompare(TimeOf(parsed.rows[j], header), DayStamp(0)) > 0)
            => i < j
\* C27: for the headers of an uploaded table with a time header, the
\* header processData sorts by, the header mergeDatasets re-sorts by and the
\* header handleInitialUpload installs as config.xAxisKey are one header.
C27_AxisPickersAgree ==
  (hasData /\ op = "parse" /\ parsed.hasTimeAxis) =>
    /\ mergeTimeHeader(parsed.headers) = processTimeHeader(parsed.headers)
    /\ config.xAxisKey = processTimeHeader(parsed.headers)
\* C28: when every append that was started has completed and none has
\* failed, the stored table holds the rows of the first table and of every
\* appended file: as many rows as the ingestions delivered.
C28_NoAppendLost ==
  (hasData /\ error = "none" /\ \A p \in inflight : p.kind # "append") =>
    Len(data.rows) = Len(ingested)
\* C29: whenever a table is stored, every active series is a header of the
\* stored table other than the x-axis header.
C29_ActiveLinesAreSeries ==
  hasData =>
    \A i \in 1..Len(config.activeLines) :
      /\ config.activeLines[i] \in Range(data.headers)
      /\ config.activeLines[i] # config.xAxisKey

\* The half of C29 about columns that are missing.
ActiveLinesAreHeaders ==
  hasData => Range(config.activeLines) \subseteq Range(data.headers)
\* A handleLoadProject returns from file.text() in this step.
LoadReturns == \E p \in inflight : p.kind = "load" /\ p \notin inflight'

\* C30: handleLoadProject either installs the table and a well-formed
\* config of the file and clears the error, or leaves the table and the
\* config as they were and sets an error; it never installs a table with a
\* missing config.
C30_LoadAllOrNothing ==
  [][LoadReturns =>
       \/ /\ hasData'
          /\ data' = project'.data
          /\ config' = project'.config
          /\ config' # UndefinedConfig
          /\ error' = "none"
       \/ /\ data' = data
          /\ hasData' = hasData
          /\ config' = config
          /\ error' = "project"]_vars

\* The same, the steps in which the current handleLoadProject installs a
\* project left out: what remains are its rejections and every step of the
\* earlier handleLoadProject.
EarlierLoadAllOrNothing ==
  [][(LoadReturns /\ ~Installs([project |-> project']))
       => \/ /\ hasData'
             /\ data' = project'.data
             /\ config' = project'.config
             /\ config' # UndefinedConfig
             /\ error' = "none"
          \/ /\ data' = data
             /\ hasData' = hasData
             /\ config' = config
             /\ error' = "project"]_vars

====
